---- MODULE Spec2Model ----
(***************************************************************************)
(* wtree: a git worktree wrapper for bare repositories.                    *)
(*                                                                         *)
(* The model follows one shell session working in one hub: the user types  *)
(* `wt create`, `wt switch` and `wt remove` commands one after the other.  *)
(* A command is split at the external processes it spawns (each hook, the  *)
(* git worktree operation); everything between two of them is one step.    *)
(* Text is modelled as sequences of one-character strings, so that the     *)
(* state file is written and parsed the way src/state.rs does it.          *)
(***************************************************************************)
EXTENDS Integers, Sequences, FiniteSets, TLC

VARIABLES
    registry,   \* git's worktree registry: the records `git worktree list` yields, in order
    cwd,        \* the shell's directory: {} at the hub root, {n} inside <hub>/n
    stateFile,  \* <hub>/.wtree/state: [exists, content]
    hooksFile,  \* <hub>/.wtree/hooks.toml: [exists, parses, doc]
    pc,         \* position of the running command ("idle" at the shell prompt)
    cmd,        \* the arguments of the running command
    hooks,      \* run(): `hooks`, the result of load_hooks (None or Some(config))
    ctx,        \* run(): `context`, the HookContext of the command (of the target, in remove)
    current,    \* run(): `current_worktree`
    hookIdx,    \* run_hooks(): index of the next hook of the running list
    tgtIdx,     \* remove::run(): index of the target being processed
    errors,     \* remove::run(): `errors`
    result,     \* what the command returned, once it has returned
    log,        \* what the running command did and printed so far, in order
    start,      \* the state file as the running command found it
    arg,        \* a function checked on its own: the argument of its last call
    ret,        \* a function checked on its own: what the last call returned
    trail       \* a function checked on its own: what its calls did so far, in order

\* the variables of the session
session == <<registry, cwd, stateFile, hooksFile, pc, cmd, hooks, ctx, current,
             hookIdx, tgtIdx, errors, result, log, start>>
\* the variables of the functions checked on their own
unit == <<arg, ret, trail>>

vars == <<session, unit>>

----------------------------------------------------------------------------
(* Bounds *)

MaxHooks == 2       \* length of the hook lists of the full configuration
MaxTargets == 2     \* names given to one `wt remove`

----------------------------------------------------------------------------
(* Text *)

None == {}
Some(x) == {x}
Unwrap(o) == CHOOSE x \in o : TRUE

Whitespace == {" ", "\t", "\n"}

RECURSIVE TrimStart(_)
TrimStart(s) ==
    IF s = <<>> THEN <<>>
    ELSE IF Head(s) \in Whitespace THEN TrimStart(Tail(s)) ELSE s

RECURSIVE TrimEnd(_)
TrimEnd(s) ==
    IF s = <<>> THEN <<>>
    ELSE IF s[Len(s)] \in Whitespace THEN TrimEnd(SubSeq(s, 1, Len(s) - 1)) ELSE s

\* str::trim
\* Trim that leaves the end of the text as it is
Trim_StartOnly(s) == TrimStart(s)

Trim(s) == TrimEnd(TrimStart(s))

\* str::strip_prefix: Some(rest) when s starts with p, None otherwise
StripPrefix(s, p) ==
    IF Len(s) >= Len(p) /\ SubSeq(s, 1, Len(p)) = p
    THEN Some(SubSeq(s, Len(p) + 1, Len(s)))
    ELSE None

\* str::lines: the text split at "\n", a final empty piece dropped
RECURSIVE SplitLines(_, _)
SplitLines(s, acc) ==
    IF s = <<>> THEN (IF acc = <<>> THEN <<>> ELSE <<acc>>)
    ELSE LET ends == { i \in 1..Len(s) : s[i] = "\n" } IN
         IF ends = {} THEN <<acc \o s>>
         ELSE LET k == CHOOSE i \in ends : \A j \in ends : i <= j IN
              <<acc \o SubSeq(s, 1, k - 1)>>
              \o SplitLines(SubSeq(s, k + 1, Len(s)), <<>>)

Lines(s) == SplitLines(s, <<>>)

PreviousKey == <<"p", "r", "e", "v", "i", "o", "u", "s", "=">>

NameA == <<"a">>
NamePadB == <<" ", "b">>
Dash == <<"-">>
BareDirName == <<".", "b", "a", "r", "e">>
BareHead == <<"(", "b", "a", "r", "e", ")">>

\* names the user gives to worktrees: a plain one, and one that starts with a blank
Names == {NameA, NamePadB}
\* commit identifiers
Shas == {<<"1">>, <<"2">>}

----------------------------------------------------------------------------
(* src/state.rs *)

NoStateFile == [exists |-> FALSE, content |-> <<>>]

\* FirstPrevious without the test for an empty value
RECURSIVE FirstPrevious_EmptyAccepted(_)
FirstPrevious_EmptyAccepted(lines) ==
    IF lines = <<>> THEN None
    ELSE LET stripped == StripPrefix(Head(lines), PreviousKey) IN
         IF stripped /= None
         THEN Some(Trim(Unwrap(stripped)))
         ELSE FirstPrevious_EmptyAccepted(Tail(lines))

RECURSIVE FirstPrevious(_)
FirstPrevious(lines) ==
    IF lines = <<>> THEN None
    ELSE LET stripped == StripPrefix(Head(lines), PreviousKey) IN
         IF stripped /= None /\ Trim(Unwrap(stripped)) /= <<>>
         THEN Some(Trim(Unwrap(stripped)))
         ELSE FirstPrevious(Tail(lines))

read_previous_worktree(file) ==
    IF ~file.exists THEN None ELSE FirstPrevious(Lines(file.content))

\* save_previous_worktree opening the file for append instead of overwriting it
save_previous_worktree_Appends(name) ==
    [exists |-> TRUE, content |-> stateFile.content \o PreviousKey \o name \o <<"\n">>]

save_previous_worktree(name) ==
    [exists |-> TRUE, content |-> PreviousKey \o name \o <<"\n">>]

----------------------------------------------------------------------------
(* src/hooks.rs: configuration *)

Sections == {"create", "switch", "remove"}

\* a hook command string, named after the list it stands in
HookCmd(section, phase, i) == [section |-> section, phase |-> phase, i |-> i]
NoHook == HookCmd("", "", 0)

HookList(section, phase, n) == [i \in 1..n |-> HookCmd(section, phase, i)]

\* the document hooks.toml holds: the sections present, and in each the lists present
FullDoc ==
    [s \in Sections |-> [p \in {"pre", "post"} |-> HookList(s, p, MaxHooks)]]
PartialDoc ==
    [s \in {"create", "switch"} |->
        IF s = "create" THEN [p \in {"post"} |-> HookList(s, p, 1)]
        ELSE [p \in {"pre"} |-> HookList(s, p, 1)]]
EmptyDoc == [s \in {} |-> <<>>]

\* hooks.toml: missing, holding the full document with a syntax error in it,
\* or holding a document that parses
HookFiles ==
    { [exists |-> FALSE, parses |-> FALSE, doc |-> EmptyDoc],
      [exists |-> TRUE, parses |-> FALSE, doc |-> FullDoc],
      [exists |-> TRUE, parses |-> TRUE, doc |-> EmptyDoc],
      [exists |-> TRUE, parses |-> TRUE, doc |-> PartialDoc],
      [exists |-> TRUE, parses |-> TRUE, doc |-> FullDoc] }

\* #[serde(default)] on CommandHooks: an absent list is empty
CommandHooks(doc, s) ==
    [pre  |-> IF s \in DOMAIN doc /\ "pre" \in DOMAIN doc[s] THEN doc[s]["pre"] ELSE <<>>,
     post |-> IF s \in DOMAIN doc /\ "post" \in DOMAIN doc[s] THEN doc[s]["post"] ELSE <<>>]

\* #[serde(default)] on HooksConfig: an absent section is the default CommandHooks
HooksConfig(doc) ==
    [create |-> CommandHooks(doc, "create"),
     switch |-> CommandHooks(doc, "switch"),
     remove |-> CommandHooks(doc, "remove")]

\* load_hooks taking the lists of a document whatever the parser said of it
load_hooks_ParseErrorIgnored(file) ==
    IF ~file.exists THEN None
    ELSE Some(HooksConfig(file.doc))

\* load_hooks without #[serde(default)]: a document that lacks a section or a
\* list does not parse
load_hooks_ListsRequired(file) ==
    IF ~file.exists THEN None
    ELSE IF ~file.parses THEN None
    ELSE IF \E s \in Sections :
               s \notin DOMAIN file.doc \/ DOMAIN file.doc[s] /= {"pre", "post"}
    THEN None
    ELSE Some(HooksConfig(file.doc))

\* toml::from_str fails on a malformed document; read_to_string fails on a
\* missing file
load_hooks(file) ==
    IF ~file.exists THEN None
    ELSE IF ~file.parses THEN None
    ELSE Some(HooksConfig(file.doc))

\* get_command_hooks without the arm of "remove": it falls to the fallback
get_command_hooks_RemoveFallsBack(config, command) ==
    CASE command = "create" -> config.create
      [] command = "switch" -> config.switch
      [] OTHER -> config.create

get_command_hooks(config, command) ==
    CASE command = "create" -> config.create
      [] command = "switch" -> config.switch
      [] command = "remove" -> config.remove
      [] OTHER -> config.create

HookContext(command, worktree_name, worktree_path, branch) ==
    [command |-> command, worktree_name |-> worktree_name,
     worktree_path |-> worktree_path, hub_root |-> <<>>, branch |-> branch]

NoContext == HookContext("", <<>>, <<>>, None)

\* the list run_pre_hooks hands to run_hooks (nothing to run without a configuration)
PreList ==
    IF hooks = None THEN <<>>
    ELSE get_command_hooks(Unwrap(hooks), ctx.command).pre

\* the list run_post_hooks hands to run_hooks
PostList ==
    IF hooks = None THEN <<>>
    ELSE get_command_hooks(Unwrap(hooks), ctx.command).post

----------------------------------------------------------------------------
(* src/git.rs: paths are sequences of components below the hub root *)

HubRoot == <<>>
\* a directory that is not below the hub root and has no hub above it
Outside == <<<<".", ".">>>>
Join(dir, name) == Append(dir, name)

\* Path::file_name
FileName(path) == IF path = <<>> THEN None ELSE Some(path[Len(path)])

\* Path::starts_with
StartsWith(path, base) ==
    Len(path) >= Len(base) /\ SubSeq(path, 1, Len(base)) = base

Worktree(path, head) == [path |-> path, head |-> head]
BareRecord == Worktree(Join(HubRoot, BareDirName), BareHead)

RegistryNames(reg) == { Unwrap(FileName(reg[i].path)) : i \in 1..Len(reg) }

\* the directory still exists: the hub root, the bare store, a registered
\* worktree, or the directory outside
DirExists(dir, reg) ==
    dir \in {HubRoot, Outside} \/ \E i \in 1..Len(reg) : StartsWith(dir, reg[i].path)

\* current_dir() fails in a directory that was removed; from a directory
\* below the hub the upward walk ends at the directory holding .bare, from
\* the directory outside it ends at the file-system root
find_hub_root(dir, reg) ==
    IF ~DirExists(dir, reg) THEN None
    ELSE IF dir = Outside THEN None
    ELSE Some(HubRoot)

\* the first record, in listing order, whose directory name is `name`
RECURSIVE FindByName(_, _)
FindByName(worktrees, name) ==
    IF worktrees = <<>> THEN None
    ELSE IF FileName(Head(worktrees).path) = Some(name) THEN Some(Head(worktrees))
    ELSE FindByName(Tail(worktrees), name)

\* the symbolic links below the hub root: from the name of a link to the
\* directory it leads to
NoLinks == [l \in {} |-> <<>>]

\* Path::canonicalize(), or the path itself where that fails: a symbolic link
\* at the front of the path is replaced by the directory it leads to
Canonicalize(path, links) ==
    IF path /= <<>> /\ path[1] \in DOMAIN links
    THEN links[path[1]] \o Tail(path)
    ELSE path

\* CurrentWorktree with == in the place of starts_with: only the top
\* directory of a worktree counts as inside it
RECURSIVE CurrentWorktree_ExactOnly(_, _, _)
CurrentWorktree_ExactOnly(dir, worktrees, links) ==
    IF worktrees = <<>> THEN None
    ELSE IF Head(worktrees).head = BareHead
         THEN CurrentWorktree_ExactOnly(dir, Tail(worktrees), links)
    ELSE IF Canonicalize(dir, links) = Canonicalize(Head(worktrees).path, links)
            /\ FileName(Head(worktrees).path) /= None
         THEN FileName(Head(worktrees).path)
    ELSE CurrentWorktree_ExactOnly(dir, Tail(worktrees), links)

\* get_current_worktree_name, lines 156-178: the loop over the records
RECURSIVE CurrentWorktree(_, _, _)
CurrentWorktree(dir, worktrees, links) ==
    IF worktrees = <<>> THEN None
    ELSE IF Head(worktrees).head = BareHead
         THEN CurrentWorktree(dir, Tail(worktrees), links)
    ELSE IF StartsWith(Canonicalize(dir, links), Canonicalize(Head(worktrees).path, links))
            /\ FileName(Head(worktrees).path) /= None
         THEN FileName(Head(worktrees).path)
    ELSE CurrentWorktree(dir, Tail(worktrees), links)

\* the session has no symbolic links
get_current_worktree_name(dir, worktrees) == CurrentWorktree(dir, worktrees, NoLinks)

RECURSIVE WithoutName(_, _)
WithoutName(reg, name) ==
    IF reg = <<>> THEN <<>>
    ELSE IF FileName(Head(reg).path) = Some(name) THEN WithoutName(Tail(reg), name)
    ELSE <<Head(reg)>> \o WithoutName(Tail(reg), name)

----------------------------------------------------------------------------
(* The session *)

\* the environment bindings of a spawned process that the engine sets
EnvNames == {"WT_COMMAND", "WT_WORKTREE_NAME", "WT_WORKTREE_PATH", "WT_HUB_ROOT", "WT_BRANCH"}
NoEnv == [v \in EnvNames |-> None]

\* something the command did: `dir` and `env` are the working directory and the
\* bindings of a hook process, and set for hooks only
Event(ev, name, hook, ok) ==
    [ev |-> ev, name |-> name, hook |-> hook, ok |-> ok, dir |-> None, env |-> NoEnv]

NoCommand ==
    [kind |-> "", name |-> <<>>, copy_envs |-> FALSE, checkout |-> None,
     base |-> None, switch |-> FALSE, names |-> <<>>]

NoResult == [ret |-> "none", err |-> ""]
Ok == [ret |-> "Ok", err |-> ""]
Err(e) == [ret |-> "Err", err |-> e]

\* a function checked on its own: not called yet, returned a value, returned an error
NoArgument == <<>>
NotCalled == [ret |-> "none", err |-> "", value |-> None]
Returned(v) == [ret |-> "Ok", err |-> "", value |-> v]
Failure(e) == [ret |-> "Err", err |-> e, value |-> None]

InitStateFiles ==
    { NoStateFile,
      [exists |-> TRUE, content |-> PreviousKey \o <<"\n">>],
      [exists |-> TRUE, content |-> PreviousKey \o <<" ", " ", "\n">>] }

Init ==
    /\ registry \in { <<BareRecord>>,
                      <<BareRecord, Worktree(Join(HubRoot, NameA), <<"1">>)>> }
    /\ cwd \in { registry[i].path : i \in 1..Len(registry) } \cup {HubRoot, Outside}
    /\ stateFile \in InitStateFiles
    /\ hooksFile \in HookFiles
    /\ pc = "idle"
    /\ cmd = NoCommand
    /\ hooks = None
    /\ ctx = NoContext
    /\ current = None
    /\ hookIdx = 0
    /\ tgtIdx = 0
    /\ errors = <<>>
    /\ result = NoResult
    /\ log = <<>>
    /\ start = stateFile
    /\ arg = NoArgument
    /\ ret = NotCalled
    /\ trail = <<>>

----------------------------------------------------------------------------
(* Returning from run(): main() exits, nothing of the command is left to do *)

Return(res, events) ==
    /\ pc' = "done"
    /\ result' = res
    /\ log' = log \o events

\* the `wt` shell function of `wt init`: after a successful switch, or a
\* successful create with --switch, it changes into the printed directory;
\* run without the function, the binary leaves the shell where it was
ShellReturn(wrapper) ==
    /\ pc = "done"
    /\ cwd' = IF /\ wrapper
                 /\ result.ret = "Ok"
                 /\ cmd.kind = "switch" \/ (cmd.kind = "create" /\ cmd.switch)
              THEN ctx.worktree_path
              ELSE cwd
    /\ pc' = "idle"
    /\ cmd' = NoCommand
    /\ hooks' = None
    /\ ctx' = NoContext
    /\ current' = None
    /\ hookIdx' = 0
    /\ tgtIdx' = 0
    /\ errors' = <<>>
    /\ result' = NoResult
    /\ log' = <<>>
    /\ start' = stateFile
    /\ UNCHANGED <<unit, registry, stateFile, hooksFile>>

----------------------------------------------------------------------------
(* src/commands/switch.rs *)

SwitchCommand(name, copy_envs) ==
    [NoCommand EXCEPT !.kind = "switch", !.name = name, !.copy_envs = copy_envs]

\* SwitchBegin saving the current worktree as soon as it is known, before the
\* target is looked up
SwitchBegin_SavesFirst(name, copy_envs, readOk, listOk, curOk) ==
    /\ pc = "idle"
    /\ cmd' = SwitchCommand(name, copy_envs)
    /\ LET previous == read_previous_worktree(stateFile)
           target_name == IF name = Dash THEN Unwrap(previous) ELSE name
           found == FindByName(registry, target_name)
           read == IF name = Dash /\ stateFile.exists
                   THEN <<Event("read_state", <<>>, NoHook, readOk)>>
                   ELSE <<>>
           listed == read \o <<Event("list", <<>>, NoHook, listOk)>>
           listedTwice == listed \o <<Event("list", <<>>, NoHook, curOk)>>
       IN
       IF find_hub_root(cwd, registry) = None
       THEN /\ Return(Err("NotAWorktreeRepo"), <<>>)
            /\ UNCHANGED <<hooks, ctx, current, hookIdx>>
       ELSE IF name = Dash /\ stateFile.exists /\ ~readOk
       THEN /\ Return(Err("StateReadFailed"), read)
            /\ UNCHANGED <<hooks, ctx, current, hookIdx>>
       ELSE IF name = Dash /\ previous = None
       THEN /\ Return(Err("NoPreviousWorktree"), read)
            /\ UNCHANGED <<hooks, ctx, current, hookIdx>>
       ELSE IF ~listOk
       THEN /\ Return(Err("GitFailed"), listed)
            /\ UNCHANGED <<hooks, ctx, current, hookIdx>>
       ELSE IF ~curOk
       THEN /\ Return(Err("GitFailed"), listedTwice)
            /\ UNCHANGED <<hooks, ctx, current, hookIdx>>
       ELSE IF found = None
       THEN /\ Return(Err("WorktreeNotFound"), listedTwice)
            /\ current' = get_current_worktree_name(cwd, registry)
            /\ UNCHANGED <<hooks, ctx, hookIdx>>
       ELSE /\ current' = get_current_worktree_name(cwd, registry)
            /\ hooks' = load_hooks(hooksFile)
            /\ ctx' = HookContext("switch", target_name, Unwrap(found).path, None)
            /\ hookIdx' = 1
            /\ pc' = "pre"
            /\ log' = log \o listedTwice
                          \o <<Event("load_hooks", target_name, NoHook, TRUE)>>
            /\ UNCHANGED result
    /\ stateFile' =
          LET previous == read_previous_worktree(stateFile)
              cur == get_current_worktree_name(cwd, registry)
          IN IF /\ find_hub_root(cwd, registry) /= None
                /\ name = Dash => previous /= None /\ (stateFile.exists => readOk)
                /\ listOk /\ curOk
                /\ cur /= None
             THEN save_previous_worktree(Unwrap(cur))
             ELSE stateFile
    /\ UNCHANGED <<unit, start, registry, cwd, hooksFile, tgtIdx, errors>>

\* run(), up to and including load_hooks: resolve the target, query the
\* registry, find the current worktree, look the target up by directory name
SwitchBegin(name, copy_envs, readOk, listOk, curOk) ==
    /\ pc = "idle"
    /\ cmd' = SwitchCommand(name, copy_envs)
    /\ LET previous == read_previous_worktree(stateFile)
           target_name == IF name = Dash THEN Unwrap(previous) ELSE name
           found == FindByName(registry, target_name)
           read == IF name = Dash /\ stateFile.exists
                   THEN <<Event("read_state", <<>>, NoHook, readOk)>>
                   ELSE <<>>
           listed == read \o <<Event("list", <<>>, NoHook, listOk)>>
           listedTwice == listed \o <<Event("list", <<>>, NoHook, curOk)>>
       IN
       IF find_hub_root(cwd, registry) = None
       THEN /\ Return(Err("NotAWorktreeRepo"), <<>>)
            /\ UNCHANGED <<hooks, ctx, current, hookIdx>>
       ELSE IF name = Dash /\ stateFile.exists /\ ~readOk
       THEN /\ Return(Err("StateReadFailed"), read)
            /\ UNCHANGED <<hooks, ctx, current, hookIdx>>
       ELSE IF name = Dash /\ previous = None
       THEN /\ Return(Err("NoPreviousWorktree"), read)
            /\ UNCHANGED <<hooks, ctx, current, hookIdx>>
       ELSE IF ~listOk
       THEN /\ Return(Err("GitFailed"), listed)
            /\ UNCHANGED <<hooks, ctx, current, hookIdx>>
       ELSE IF ~curOk
       THEN /\ Return(Err("GitFailed"), listedTwice)
            /\ UNCHANGED <<hooks, ctx, current, hookIdx>>
       ELSE IF found = None
       THEN /\ Return(Err("WorktreeNotFound"), listedTwice)
            /\ current' = get_current_worktree_name(cwd, registry)
            /\ UNCHANGED <<hooks, ctx, hookIdx>>
       ELSE /\ current' = get_current_worktree_name(cwd, registry)
            /\ hooks' = load_hooks(hooksFile)
            /\ ctx' = HookContext("switch", target_name, Unwrap(found).path, None)
            /\ hookIdx' = 1
            /\ pc' = "pre"
            /\ log' = log \o listedTwice
                          \o <<Event("load_hooks", target_name, NoHook, TRUE)>>
            /\ UNCHANGED result
    /\ UNCHANGED <<unit, start, registry, cwd, stateFile, hooksFile, tgtIdx, errors>>

\* SwitchOp saving the name of the target instead of the name of the source
SwitchOp_SavesTarget(copyOk, saveOk) ==
    /\ pc = "op"
    /\ cmd.kind = "switch"
    /\ LET copied == IF cmd.copy_envs
                     THEN <<Event("copy_envs", ctx.worktree_name, NoHook, copyOk)>>
                     ELSE <<>>
           saving == current /= None /\ Unwrap(current) /= ctx.worktree_name
           saved == IF saving
                    THEN <<Event("save", Unwrap(current), NoHook, saveOk)>>
                    ELSE <<>>
       IN
       IF cmd.copy_envs /\ ~copyOk
       THEN /\ Return(Err("CopyFailed"), copied)
            /\ UNCHANGED <<stateFile, hookIdx>>
       ELSE IF saving /\ ~saveOk
       THEN /\ Return(Err("StateWriteFailed"), copied \o saved)
            /\ UNCHANGED <<stateFile, hookIdx>>
       ELSE /\ stateFile' = IF saving THEN save_previous_worktree(ctx.worktree_name)
                            ELSE stateFile
            /\ hookIdx' = 1
            /\ pc' = "post"
            /\ log' = log \o copied \o saved
            /\ UNCHANGED result
    /\ UNCHANGED <<unit, start, registry, cwd, hooksFile, cmd, hooks, ctx, current, tgtIdx, errors>>

\* SwitchOp without the comparison of source and target: it saves on every switch
SwitchOp_SavesAlways(copyOk, saveOk) ==
    /\ pc = "op"
    /\ cmd.kind = "switch"
    /\ LET copied == IF cmd.copy_envs
                     THEN <<Event("copy_envs", ctx.worktree_name, NoHook, copyOk)>>
                     ELSE <<>>
           saving == current /= None
           saved == IF saving
                    THEN <<Event("save", Unwrap(current), NoHook, saveOk)>>
                    ELSE <<>>
       IN
       IF cmd.copy_envs /\ ~copyOk
       THEN /\ Return(Err("CopyFailed"), copied)
            /\ UNCHANGED <<stateFile, hookIdx>>
       ELSE IF saving /\ ~saveOk
       THEN /\ Return(Err("StateWriteFailed"), copied \o saved)
            /\ UNCHANGED <<stateFile, hookIdx>>
       ELSE /\ stateFile' = IF saving THEN save_previous_worktree(Unwrap(current))
                            ELSE stateFile
            /\ hookIdx' = 1
            /\ pc' = "post"
            /\ log' = log \o copied \o saved
            /\ UNCHANGED result
    /\ UNCHANGED <<unit, start, registry, cwd, hooksFile, cmd, hooks, ctx, current, tgtIdx, errors>>

\* run(), between the pre-hooks and the post-hooks: copy the .env files when
\* asked to, then save the current worktree as the previous one
SwitchOp(copyOk, saveOk) ==
    /\ pc = "op"
    /\ cmd.kind = "switch"
    /\ LET copied == IF cmd.copy_envs
                     THEN <<Event("copy_envs", ctx.worktree_name, NoHook, copyOk)>>
                     ELSE <<>>
           saving == current /= None /\ Unwrap(current) /= ctx.worktree_name
           saved == IF saving
                    THEN <<Event("save", Unwrap(current), NoHook, saveOk)>>
                    ELSE <<>>
       IN
       IF cmd.copy_envs /\ ~copyOk
       THEN /\ Return(Err("CopyFailed"), copied)
            /\ UNCHANGED <<stateFile, hookIdx>>
       ELSE IF saving /\ ~saveOk
       THEN /\ Return(Err("StateWriteFailed"), copied \o saved)
            /\ UNCHANGED <<stateFile, hookIdx>>
       ELSE /\ stateFile' = IF saving THEN save_previous_worktree(Unwrap(current))
                            ELSE stateFile
            /\ hookIdx' = 1
            /\ pc' = "post"
            /\ log' = log \o copied \o saved
            /\ UNCHANGED result
    /\ UNCHANGED <<unit, start, registry, cwd, hooksFile, cmd, hooks, ctx, current, tgtIdx, errors>>

\* SwitchFinish taking the pointer back when a post-hook has failed
SwitchFinish_UndoesAfterWarning ==
    /\ pc = "finish"
    /\ cmd.kind = "switch"
    /\ stateFile' = IF \E i \in DOMAIN log : log[i].ev = "warning" THEN start ELSE stateFile
    /\ Return(Ok, <<Event("println_path", ctx.worktree_name, NoHook, TRUE)>>)
    /\ UNCHANGED <<unit, start, registry, cwd, hooksFile, cmd, hooks, ctx, current,
                   hookIdx, tgtIdx, errors>>

\* run(), after run_post_hooks: print the path for the shell function
SwitchFinish ==
    /\ pc = "finish"
    /\ cmd.kind = "switch"
    /\ Return(Ok, <<Event("println_path", ctx.worktree_name, NoHook, TRUE)>>)
    /\ UNCHANGED <<unit, start, registry, cwd, stateFile, hooksFile, cmd, hooks, ctx, current,
                   hookIdx, tgtIdx, errors>>

----------------------------------------------------------------------------
(* src/hooks.rs: execution *)

\* working_dir without the test of line 139: a post-hook is always started in
\* the worktree path
working_dir_AlwaysWorktree(phase, context, reg) ==
    IF phase = "pre" THEN context.hub_root ELSE context.worktree_path

\* run_single_hook: `working_dir`
working_dir(phase, context, reg) ==
    IF phase = "pre" THEN context.hub_root
    ELSE IF DirExists(context.worktree_path, reg) THEN context.worktree_path
    ELSE context.hub_root

\* Env with the branch binding always made, of the worktree name when the
\* context has no branch
Env_BranchAlways(context) ==
    [v \in EnvNames |->
        CASE v = "WT_COMMAND" -> Some(context.command)
          [] v = "WT_WORKTREE_NAME" -> Some(context.worktree_name)
          [] v = "WT_WORKTREE_PATH" -> Some(context.worktree_path)
          [] v = "WT_HUB_ROOT" -> Some(context.hub_root)
          [] v = "WT_BRANCH" -> IF context.branch = None
                                THEN Some(context.worktree_name)
                                ELSE context.branch]

\* run_single_hook: the .env and .envs calls on the Command
Env(context) ==
    [v \in EnvNames |->
        CASE v = "WT_COMMAND" -> Some(context.command)
          [] v = "WT_WORKTREE_NAME" -> Some(context.worktree_name)
          [] v = "WT_WORKTREE_PATH" -> Some(context.worktree_path)
          [] v = "WT_HUB_ROOT" -> Some(context.hub_root)
          [] v = "WT_BRANCH" -> context.branch]

\* run_single_hook: `sh -c <hook>` was started and waited for
Spawned(phase, context, hook, ok, reg) ==
    [ev |-> phase, name |-> context.worktree_name, hook |-> hook, ok |-> ok,
     dir |-> Some(working_dir(phase, context, reg)), env |-> Env(context)]

\* RunPreHook with the `?` of create and switch lost: a failed pre-hook is passed over
RunPreHook_FailureIgnored(ok) ==
    /\ pc = "pre"
    /\ hookIdx <= Len(PreList)
    /\ LET ran == <<Spawned("pre", ctx, PreList[hookIdx], ok, registry)>> IN
       IF ok \/ cmd.kind /= "remove"
       THEN /\ hookIdx' = hookIdx + 1
            /\ log' = log \o ran
            /\ UNCHANGED <<pc, result, errors, tgtIdx>>
       ELSE /\ errors' = Append(errors, [name |-> ctx.worktree_name, err |-> "PreHookFailed"])
            /\ tgtIdx' = tgtIdx + 1
            /\ pc' = "next"
            /\ log' = log \o ran
            /\ UNCHANGED <<hookIdx, result>>
    /\ UNCHANGED <<unit, start, registry, cwd, stateFile, hooksFile, cmd, hooks, ctx, current>>

\* RunPreHook with the `continue` of remove lost: the failure is recorded, and
\* the loop body goes on to `git worktree remove`
RunPreHook_RemoveGoesOn(ok) ==
    /\ pc = "pre"
    /\ hookIdx <= Len(PreList)
    /\ LET ran == <<Spawned("pre", ctx, PreList[hookIdx], ok, registry)>> IN
       IF ok
       THEN /\ hookIdx' = hookIdx + 1
            /\ log' = log \o ran
            /\ UNCHANGED <<pc, result, errors, tgtIdx>>
       ELSE IF cmd.kind = "remove"
       THEN /\ errors' = Append(errors, [name |-> ctx.worktree_name, err |-> "PreHookFailed"])
            /\ pc' = "op"
            /\ log' = log \o ran
            /\ UNCHANGED <<hookIdx, result, tgtIdx>>
       ELSE /\ Return(Err("PreHookFailed"), ran)
            /\ UNCHANGED <<hookIdx, errors, tgtIdx>>
    /\ UNCHANGED <<unit, start, registry, cwd, stateFile, hooksFile, cmd, hooks, ctx, current>>

\* RunPreHook starting a hook that failed a second time before giving up
RunPreHook_RetriesOnce(ok) ==
    /\ pc = "pre"
    /\ hookIdx <= Len(PreList)
    /\ LET ran == <<Spawned("pre", ctx, PreList[hookIdx], ok, registry)>>
           retried == log /= <<>> /\ log[Len(log)] = Spawned("pre", ctx, PreList[hookIdx], FALSE, registry)
       IN
       IF ok
       THEN /\ hookIdx' = hookIdx + 1
            /\ log' = log \o ran
            /\ UNCHANGED <<pc, result, errors, tgtIdx>>
       ELSE IF ~retried
       THEN /\ log' = log \o ran
            /\ UNCHANGED <<pc, hookIdx, result, errors, tgtIdx>>
       ELSE IF cmd.kind = "remove"
       THEN /\ errors' = Append(errors, [name |-> ctx.worktree_name, err |-> "PreHookFailed"])
            /\ tgtIdx' = tgtIdx + 1
            /\ pc' = "next"
            /\ log' = log \o ran
            /\ UNCHANGED <<hookIdx, result>>
       ELSE /\ Return(Err("PreHookFailed"), ran)
            /\ UNCHANGED <<hookIdx, errors, tgtIdx>>
    /\ UNCHANGED <<unit, start, registry, cwd, stateFile, hooksFile, cmd, hooks, ctx, current>>

\* run_hooks over the pre list: start the next hook and wait for it. A
\* failure ends the list; create and switch propagate it (`?`), remove
\* records it for the target and goes on with the next target
RunPreHook(ok) ==
    /\ pc = "pre"
    /\ hookIdx <= Len(PreList)
    /\ LET ran == <<Spawned("pre", ctx, PreList[hookIdx], ok, registry)>> IN
       IF ok
       THEN /\ hookIdx' = hookIdx + 1
            /\ log' = log \o ran
            /\ UNCHANGED <<pc, result, errors, tgtIdx>>
       ELSE IF cmd.kind = "remove"
       THEN /\ errors' = Append(errors, [name |-> ctx.worktree_name, err |-> "PreHookFailed"])
            /\ tgtIdx' = tgtIdx + 1
            /\ pc' = "next"
            /\ log' = log \o ran
            /\ UNCHANGED <<hookIdx, result>>
       ELSE /\ Return(Err("PreHookFailed"), ran)
            /\ UNCHANGED <<hookIdx, errors, tgtIdx>>
    /\ UNCHANGED <<unit, start, registry, cwd, stateFile, hooksFile, cmd, hooks, ctx, current>>

\* run_pre_hooks returns Ok: no configuration, or every hook of the list succeeded
PreHooksDone ==
    /\ pc = "pre"
    /\ hookIdx > Len(PreList)
    /\ pc' = "op"
    /\ UNCHANGED <<unit, start, registry, cwd, stateFile, hooksFile, cmd, hooks, ctx, current,
                   hookIdx, tgtIdx, errors, result, log>>

\* RunPostHook with the failure propagated to the command, as a pre-hook's is
RunPostHook_FailurePropagated(ok) ==
    /\ pc = "post"
    /\ hookIdx <= Len(PostList)
    /\ LET ran == <<Spawned("post", ctx, PostList[hookIdx], ok, registry)>> IN
       IF ok
       THEN /\ hookIdx' = hookIdx + 1
            /\ log' = log \o ran
            /\ UNCHANGED <<pc, result>>
       ELSE /\ Return(Err("PostHookFailed"), ran)
            /\ UNCHANGED hookIdx
    /\ UNCHANGED <<unit, start, registry, cwd, stateFile, hooksFile, cmd, hooks, ctx, current,
                   tgtIdx, errors>>

\* RunPostHook going on with the list after a failure, a warning for each
RunPostHook_ContinuesAfterFailure(ok) ==
    /\ pc = "post"
    /\ hookIdx <= Len(PostList)
    /\ LET ran == <<Spawned("post", ctx, PostList[hookIdx], ok, registry)>> IN
       /\ hookIdx' = hookIdx + 1
       /\ log' = log \o ran
                     \o (IF ok THEN <<>>
                         ELSE <<Event("warning", ctx.worktree_name, PostList[hookIdx], FALSE)>>)
       /\ UNCHANGED <<pc, result>>
    /\ UNCHANGED <<unit, start, registry, cwd, stateFile, hooksFile, cmd, hooks, ctx, current,
                   tgtIdx, errors>>

\* run_hooks over the post list; run_post_hooks turns a failure into a warning
RunPostHook(ok) ==
    /\ pc = "post"
    /\ hookIdx <= Len(PostList)
    /\ LET ran == <<Spawned("post", ctx, PostList[hookIdx], ok, registry)>> IN
       IF ok
       THEN /\ hookIdx' = hookIdx + 1
            /\ log' = log \o ran
            /\ UNCHANGED <<pc, result>>
       ELSE /\ pc' = "finish"
            /\ log' = log \o ran
                          \o <<Event("warning", ctx.worktree_name, PostList[hookIdx], FALSE)>>
            /\ UNCHANGED <<hookIdx, result>>
    /\ UNCHANGED <<unit, start, registry, cwd, stateFile, hooksFile, cmd, hooks, ctx, current,
                   tgtIdx, errors>>

\* run_post_hooks returns: no configuration, or every hook of the list succeeded
PostHooksDone ==
    /\ pc = "post"
    /\ hookIdx > Len(PostList)
    /\ pc' = "finish"
    /\ UNCHANGED <<unit, start, registry, cwd, stateFile, hooksFile, cmd, hooks, ctx, current,
                   hookIdx, tgtIdx, errors, result, log>>

----------------------------------------------------------------------------
(* src/commands/create.rs *)

CreateCommand(name, checkout, base, switch) ==
    [NoCommand EXCEPT !.kind = "create", !.name = name, !.checkout = checkout,
                      !.base = base, !.switch = switch]

\* BaseSha falling back to the first record of the listing when no record
\* has the name of the source
BaseSha_FallsBack(base, worktrees) ==
    IF base = None THEN None
    ELSE LET found == FindByName(worktrees, Unwrap(base)) IN
         IF found /= None THEN Some(Unwrap(found).head)
         ELSE IF worktrees = <<>> THEN None
         ELSE Some(Head(worktrees).head)

\* `base_sha`: the head of the first record whose directory name is the source
BaseSha(base, worktrees) ==
    IF base = None THEN None
    ELSE LET found == FindByName(worktrees, Unwrap(base)) IN
         IF found = None THEN None ELSE Some(Unwrap(found).head)

\* run(), up to and including the construction of the context
CreateBegin(name, checkout, base, switch, curOk, listOk) ==
    /\ pc = "idle"
    /\ cmd' = CreateCommand(name, checkout, base, switch)
    /\ LET curListed == IF switch THEN <<Event("list", <<>>, NoHook, curOk)>> ELSE <<>>
           baseListed == IF base /= None THEN <<Event("list", <<>>, NoHook, listOk)>>
                         ELSE <<>>
           ctx_branch == IF checkout /= None THEN checkout
                         ELSE IF base /= None THEN Some(name) ELSE None
       IN
       IF find_hub_root(cwd, registry) = None
       THEN /\ Return(Err("NotAWorktreeRepo"), <<>>)
            /\ UNCHANGED <<hooks, ctx, current, hookIdx>>
       ELSE IF switch /\ ~curOk
       THEN /\ Return(Err("GitFailed"), curListed)
            /\ UNCHANGED <<hooks, ctx, current, hookIdx>>
       ELSE IF base /= None /\ ~listOk
       THEN /\ Return(Err("GitFailed"), curListed \o baseListed)
            /\ UNCHANGED <<hooks, ctx, current, hookIdx>>
       ELSE IF base /= None /\ BaseSha(base, registry) = None
       THEN /\ Return(Err("WorktreeNotFound"), curListed \o baseListed)
            /\ UNCHANGED <<hooks, ctx, current, hookIdx>>
       ELSE /\ current' = IF switch THEN get_current_worktree_name(cwd, registry)
                          ELSE None
            /\ hooks' = load_hooks(hooksFile)
            /\ ctx' = HookContext("create", name, Join(HubRoot, name), ctx_branch)
            /\ hookIdx' = 1
            /\ pc' = "pre"
            /\ log' = log \o curListed \o baseListed
                          \o <<Event("load_hooks", name, NoHook, TRUE)>>
            /\ UNCHANGED result
    /\ UNCHANGED <<unit, start, registry, cwd, stateFile, hooksFile, tgtIdx, errors>>

\* git refuses to add a worktree over an existing directory, and to branch
\* from something that is not a commit
AddMustFail(name, base_sha, reg) ==
    name \in RegistryNames(reg) \/ base_sha = Some(BareHead)

\* CreateOp with the `?` lost: the post-hooks run whatever git returned
CreateOp_FailureIgnored(gitOk, newHead) ==
    /\ pc = "op"
    /\ cmd.kind = "create"
    /\ LET base_sha == BaseSha(cmd.base, registry)
           ok == gitOk /\ ~AddMustFail(cmd.name, base_sha, registry)
           head == IF cmd.checkout = None /\ base_sha /= None THEN Unwrap(base_sha)
                   ELSE newHead
           added == <<Event("git_add", cmd.name, NoHook, ok)>>
       IN
       /\ registry' = IF ok THEN Append(registry, Worktree(Join(HubRoot, cmd.name), head))
                      ELSE registry
       /\ hookIdx' = 1
       /\ pc' = "post"
       /\ log' = log \o added
       /\ UNCHANGED result
    /\ UNCHANGED <<unit, start, cwd, stateFile, hooksFile, cmd, hooks, ctx, current, tgtIdx, errors>>

\* CreateOp saving the pointer before it runs git
CreateOp_SavesFirst(gitOk, newHead) ==
    /\ pc = "op"
    /\ cmd.kind = "create"
    /\ stateFile' = IF cmd.switch /\ current /= None
                    THEN save_previous_worktree(Unwrap(current))
                    ELSE stateFile
    /\ LET base_sha == BaseSha(cmd.base, registry)
           ok == gitOk /\ ~AddMustFail(cmd.name, base_sha, registry)
           head == IF cmd.checkout = None /\ base_sha /= None THEN Unwrap(base_sha)
                   ELSE newHead
           added == <<Event("git_add", cmd.name, NoHook, ok)>>
       IN
       IF ok
       THEN /\ registry' = Append(registry, Worktree(Join(HubRoot, cmd.name), head))
            /\ hookIdx' = 1
            /\ pc' = "post"
            /\ log' = log \o added
            /\ UNCHANGED result
       ELSE /\ Return(Err("GitFailed"), added)
            /\ UNCHANGED <<registry, hookIdx>>
    /\ UNCHANGED <<unit, start, cwd, hooksFile, cmd, hooks, ctx, current, tgtIdx, errors>>

\* run(): `git worktree add`, with the arguments the options select
CreateOp(gitOk, newHead) ==
    /\ pc = "op"
    /\ cmd.kind = "create"
    /\ LET base_sha == BaseSha(cmd.base, registry)
           ok == gitOk /\ ~AddMustFail(cmd.name, base_sha, registry)
           head == IF cmd.checkout = None /\ base_sha /= None THEN Unwrap(base_sha)
                   ELSE newHead
           added == <<Event("git_add", cmd.name, NoHook, ok)>>
       IN
       IF ok
       THEN /\ registry' = Append(registry, Worktree(Join(HubRoot, cmd.name), head))
            /\ hookIdx' = 1
            /\ pc' = "post"
            /\ log' = log \o added
            /\ UNCHANGED result
       ELSE /\ Return(Err("GitFailed"), added)
            /\ UNCHANGED <<registry, hookIdx>>
    /\ UNCHANGED <<unit, start, cwd, stateFile, hooksFile, cmd, hooks, ctx, current, tgtIdx, errors>>

\* run(), after run_post_hooks: with --switch save the worktree the command
\* was started in and print the path, otherwise print the confirmation
CreateFinish(saveOk) ==
    /\ pc = "finish"
    /\ cmd.kind = "create"
    /\ LET saving == cmd.switch /\ current /= None
           saved == IF saving THEN <<Event("save", Unwrap(current), NoHook, saveOk)>>
                    ELSE <<>>
       IN
       IF saving /\ ~saveOk
       THEN /\ Return(Err("StateWriteFailed"), saved)
            /\ UNCHANGED stateFile
       ELSE /\ stateFile' = IF saving THEN save_previous_worktree(Unwrap(current))
                            ELSE stateFile
            /\ Return(Ok, saved \o
                   <<Event(IF cmd.switch THEN "println_path" ELSE "println_created",
                           cmd.name, NoHook, TRUE)>>)
    /\ UNCHANGED <<unit, start, registry, cwd, hooksFile, cmd, hooks, ctx, current, hookIdx,
                   tgtIdx, errors>>

----------------------------------------------------------------------------
(* src/commands/remove.rs *)

RemoveCommand(names) == [NoCommand EXCEPT !.kind = "remove", !.names = names]

\* run(), before the loop
RemoveBegin(names) ==
    /\ pc = "idle"
    /\ cmd' = RemoveCommand(names)
    /\ IF find_hub_root(cwd, registry) = None
       THEN /\ Return(Err("NotAWorktreeRepo"), <<>>)
            /\ UNCHANGED <<hooks, tgtIdx>>
       ELSE /\ hooks' = load_hooks(hooksFile)
            /\ tgtIdx' = 1
            /\ pc' = "next"
            /\ log' = log \o <<Event("load_hooks", <<>>, NoHook, TRUE)>>
            /\ UNCHANGED result
    /\ UNCHANGED <<unit, start, registry, cwd, stateFile, hooksFile, ctx, current, hookIdx, errors>>

\* the head of the loop, with a target left: build its context
RemoveNextTarget ==
    /\ pc = "next"
    /\ tgtIdx <= Len(cmd.names)
    /\ ctx' = HookContext("remove", cmd.names[tgtIdx],
                          Join(HubRoot, cmd.names[tgtIdx]), None)
    /\ hookIdx' = 1
    /\ pc' = "pre"
    /\ UNCHANGED <<unit, start, registry, cwd, stateFile, hooksFile, cmd, hooks, current, tgtIdx,
                   errors, result, log>>

\* git only removes a worktree it has registered
RemoveMustFail(name, reg) ==
    \A i \in 1..Len(reg) : reg[i].head = BareHead \/ FileName(reg[i].path) /= Some(name)

\* RemoveOp with the git failure returned at once (`?`) instead of collected
RemoveOp_FailureReturned(gitOk) ==
    /\ pc = "op"
    /\ cmd.kind = "remove"
    /\ LET name == cmd.names[tgtIdx]
           ok == gitOk /\ ~RemoveMustFail(name, registry)
           removed == <<Event("git_remove", name, NoHook, ok)>>
       IN
       IF ok
       THEN /\ registry' = WithoutName(registry, name)
            /\ hookIdx' = 1
            /\ pc' = "post"
            /\ log' = log \o removed
            /\ UNCHANGED <<errors, tgtIdx, result>>
       ELSE /\ Return(Err("GitFailed"), removed)
            /\ UNCHANGED <<registry, hookIdx, errors, tgtIdx>>
    /\ UNCHANGED <<unit, start, cwd, stateFile, hooksFile, cmd, hooks, ctx, current>>

\* `git worktree remove` of the target
RemoveOp(gitOk) ==
    /\ pc = "op"
    /\ cmd.kind = "remove"
    /\ LET name == cmd.names[tgtIdx]
           ok == gitOk /\ ~RemoveMustFail(name, registry)
           removed == <<Event("git_remove", name, NoHook, ok)>>
       IN
       IF ok
       THEN /\ registry' = WithoutName(registry, name)
            /\ hookIdx' = 1
            /\ pc' = "post"
            /\ log' = log \o removed
            /\ UNCHANGED <<errors, tgtIdx>>
       ELSE /\ errors' = Append(errors, [name |-> name, err |-> "GitFailed"])
            /\ tgtIdx' = tgtIdx + 1
            /\ pc' = "next"
            /\ log' = log \o removed
            /\ UNCHANGED <<registry, hookIdx>>
    /\ UNCHANGED <<unit, start, cwd, stateFile, hooksFile, cmd, hooks, ctx, current, result>>

\* after run_post_hooks of a target: print its success line, go on with the loop
RemoveTargetDone ==
    /\ pc = "finish"
    /\ cmd.kind = "remove"
    /\ log' = log \o <<Event("println_removed", cmd.names[tgtIdx], NoHook, TRUE)>>
    /\ tgtIdx' = tgtIdx + 1
    /\ pc' = "next"
    /\ UNCHANGED <<unit, start, registry, cwd, stateFile, hooksFile, cmd, hooks, ctx, current,
                   hookIdx, errors, result>>

ErrorLines(errs) ==
    [i \in 1..Len(errs) |-> Event("eprintln_failed", errs[i].name, NoHook, FALSE)]

\* after the loop: report the failures, if any
RemoveFinish ==
    /\ pc = "next"
    /\ tgtIdx > Len(cmd.names)
    /\ IF errors /= <<>>
       THEN Return(Err("CouldNotBeRemoved"), ErrorLines(errors))
       ELSE Return(Ok, <<>>)
    /\ UNCHANGED <<unit, start, registry, cwd, stateFile, hooksFile, cmd, hooks, ctx, current,
                   hookIdx, tgtIdx, errors>>

----------------------------------------------------------------------------
(* src/commands/list.rs *)

\* the lines `wt list` prints: one for every record, in listing order, whose
\* directory name is not ".bare"
RECURSIVE ListedLines(_)
ListedLines(worktrees) ==
    IF worktrees = <<>> THEN <<>>
    ELSE LET name == IF FileName(Head(worktrees).path) /= None
                     THEN Unwrap(FileName(Head(worktrees).path))
                     ELSE <<>>
         IN (IF name = BareDirName THEN <<>>
             ELSE <<Event("println_listed", name, NoHook, TRUE)>>)
            \o ListedLines(Tail(worktrees))

\* run()
ListRun(listOk) ==
    /\ pc = "idle"
    /\ cmd' = [NoCommand EXCEPT !.kind = "list"]
    /\ LET listed == <<Event("list", <<>>, NoHook, listOk)>> IN
       IF find_hub_root(cwd, registry) = None
       THEN Return(Err("NotAWorktreeRepo"), <<>>)
       ELSE IF ~listOk
       THEN Return(Err("GitFailed"), listed)
       ELSE IF registry = <<>>
       THEN Return(Ok, listed \o <<Event("println_none", <<>>, NoHook, TRUE)>>)
       ELSE Return(Ok, listed \o ListedLines(registry))
    /\ UNCHANGED <<unit, start, registry, cwd, stateFile, hooksFile, hooks, ctx, current,
                   hookIdx, tgtIdx, errors>>

----------------------------------------------------------------------------
(* What the user may type *)

SwitchArgs == Names \cup {Dash, BareDirName}
BaseArgs == {None, Some(NameA), Some(BareDirName)}
CheckoutArgs == {None, Some(<<"m">>)}

RECURSIVE SeqsUpTo(_, _)
SeqsUpTo(S, n) ==
    IF n = 0 THEN {<<>>}
    ELSE LET shorter == SeqsUpTo(S, n - 1) IN
         shorter \cup { Append(q, x) : q \in shorter, x \in S }

\* the targets of one `wt remove`: up to MaxTargets names, none twice in a row
RemoveArgs ==
    { q \in SeqsUpTo(Names, MaxTargets) : \A i \in 1..(Len(q) - 1) : q[i] /= q[i + 1] }

Next ==
    \/ \E name \in SwitchArgs, copy_envs, readOk, listOk, curOk \in BOOLEAN :
          SwitchBegin(name, copy_envs, readOk, listOk, curOk)
    \/ \E copyOk, saveOk \in BOOLEAN : SwitchOp(copyOk, saveOk)
    \/ SwitchFinish
    \/ \E name \in Names, checkout \in CheckoutArgs, base \in BaseArgs,
          switch, curOk, listOk \in BOOLEAN :
          /\ checkout = None \/ base = None
          /\ CreateBegin(name, checkout, base, switch, curOk, listOk)
    \/ \E gitOk \in BOOLEAN, newHead \in Shas : CreateOp(gitOk, newHead)
    \/ \E saveOk \in BOOLEAN : CreateFinish(saveOk)
    \/ \E names \in RemoveArgs : RemoveBegin(names)
    \/ RemoveNextTarget
    \/ \E gitOk \in BOOLEAN : RemoveOp(gitOk)
    \/ RemoveTargetDone
    \/ RemoveFinish
    \/ \E ok \in BOOLEAN : RunPreHook(ok)
    \/ PreHooksDone
    \/ \E ok \in BOOLEAN : RunPostHook(ok)
    \/ PostHooksDone
    \/ \E listOk \in BOOLEAN : ListRun(listOk)
    \/ \E wrapper \in BOOLEAN : ShellReturn(wrapper)

Spec == Init /\ [][Next]_vars

----------------------------------------------------------------------------
(* Properties *)

Failed(ev) == { i \in DOMAIN log : log[i].ev = ev /\ ~log[i].ok }
Ran(ev) == { i \in DOMAIN log : log[i].ev = ev }

\* the command got past find_hub_root
HubFound == result.err /= "NotAWorktreeRepo"

(* C1: in create, once a pre-hook of the create section has failed, the    *)
(* command has returned an error, `git worktree add` was never invoked, no *)
(* post-hook ran, and the previous-worktree pointer was not written: the   *)
(* state file is as the command found it.                                  *)
C1_CreatePreHookFailureAborts ==
    (cmd.kind = "create" /\ Failed("pre") /= {}) =>
        /\ pc = "done"
        /\ result = Err("PreHookFailed")
        /\ Ran("git_add") = {}
        /\ Ran("post") = {}
        /\ Ran("save") = {}
        /\ stateFile = start

\* a create whose second pre-hook failed after the first had succeeded
C1_Witness ==
    /\ cmd.kind = "create"
    /\ pc = "done"
    /\ \E i \in Failed("pre") : log[i].hook = HookCmd("create", "pre", 2)
    /\ \E i \in Ran("pre") : log[i].ok

SuccessLines == {"println_path", "println_created", "println_removed"}

(* C2: in create, switch and remove a failing post-hook never changes the  *)
(* outcome. The failure is logged as a warning and the command goes on as  *)
(* after a successful post-hook list: the next thing it does is print the  *)
(* success line or path (create --switch saves the pointer first), no      *)
(* error is recorded for the target, and switch and create return Ok       *)
(* (create --switch unless that save fails, as it could have anyway).      *)
C2_PostHookFailureIsOnlyAWarning ==
    \A i \in Failed("post") :
        /\ i + 1 \in Ran("warning")
        /\ pc \in {"pre", "op", "post"} => cmd.kind = "remove" /\ i + 2 <= Len(log)
        /\ i + 2 <= Len(log) =>
              \/ log[i + 2].ev \in SuccessLines /\ log[i + 2].name = log[i].name
              \/ cmd.kind = "create" /\ cmd.switch /\ i + 2 \in Ran("save")
        /\ (pc = "done" /\ cmd.kind = "switch") =>
              result = Ok /\ log[Len(log)].ev = "println_path"
        /\ (pc = "done" /\ cmd.kind = "create") =>
              \/ result = Ok /\ log[Len(log)].ev \in SuccessLines
              \/ result = Err("StateWriteFailed") /\ Len(log) \in Failed("save")
        /\ cmd.kind = "remove" =>
              Len(errors) = Cardinality(Failed("pre") \cup Failed("git_remove"))

\* a switch that returned Ok although its first post-hook failed
C2_Witness ==
    /\ pc = "done"
    /\ cmd.kind = "switch"
    /\ result = Ok
    /\ Failed("post") /= {}

\* the event that ends the work on one remove target
Terminal(e) ==
    \/ e.ev \in {"pre", "git_remove"} /\ ~e.ok
    \/ e.ev = "println_removed"
IsFailure(e) == ~e.ok
IsErrorLine(e) == e.ev = "eprintln_failed"
NamesOf(events) == [i \in DOMAIN events |-> events[i].name]

(* C3: in remove (run inside a hub), the targets are worked on in the      *)
(* given order whatever happened to the earlier ones; when the command     *)
(* returns every target was attempted, it returns an error if and only if  *)
(* at least one target failed, the failure lines are printed only after    *)
(* the last target was attempted and name exactly the targets that failed, *)
(* and every other target has its success line.                            *)
C3_RemoveAttemptsEveryTarget ==
    (cmd.kind = "remove" /\ HubFound) =>
        LET ended == SelectSeq(log, Terminal)
            failed == SelectSeq(ended, IsFailure)
            reported == SelectSeq(log, IsErrorLine)
        IN
        /\ NamesOf(ended) = SubSeq(cmd.names, 1, Len(ended))
        /\ NamesOf(failed) = [i \in DOMAIN errors |-> errors[i].name]
        /\ pc /= "done" => reported = <<>> /\ result = NoResult
        /\ pc = "done" =>
              /\ Len(ended) = Len(cmd.names)
              /\ result.ret = "Err" <=> failed /= <<>>
              /\ NamesOf(reported) = NamesOf(failed)
              /\ log = SubSeq(log, 1, Len(log) - Len(reported)) \o reported

\* remove of two targets returned: the first failed, the second was removed
C3_Witness ==
    /\ cmd.kind = "remove"
    /\ pc = "done"
    /\ Len(cmd.names) = 2
    /\ Len(errors) = 1
    /\ errors[1].name = cmd.names[1]
    /\ \E i \in Ran("println_removed") : log[i].name = cmd.names[2]
    /\ result.ret = "Err"

\* the first event of the work on the target (or command) that log[i] belongs to
SegmentStart(i) ==
    LET before == { j \in 1..(i - 1) : Terminal(log[j]) \/ log[j].ev = "load_hooks" }
    IN IF before = {} THEN 1
       ELSE 1 + CHOOSE j \in before : \A k \in before : k <= j

\* how many targets of remove had failed when log[i] was written
FailuresUpTo(i) == Cardinality({ j \in 1..i : Terminal(log[j]) /\ ~log[j].ok })

(* C4: in remove, for a target whose pre-hook failed nothing but pre-hooks  *)
(* ran: `git worktree remove` was not invoked for it and none of its        *)
(* post-hooks ran, neither before the failure nor after it (what follows is *)
(* the first pre-hook of the next target or the report of the failures),    *)
(* and the target is in the list of failures with the hook's error.         *)
C4_RemovePreHookFailureSkipsTarget ==
    cmd.kind = "remove" =>
        \A i \in Failed("pre") :
            /\ \A j \in SegmentStart(i)..i :
                  log[j].ev = "pre" /\ log[j].name = log[i].name
            /\ i < Len(log) =>
                  \/ log[i + 1].ev = "eprintln_failed"
                  \/ /\ log[i + 1].ev = "pre"
                     /\ log[i + 1].hook = HookCmd("remove", "pre", 1)
                     /\ log[i + 1].name = cmd.names[Len(SelectSeq(SubSeq(log, 1, i), Terminal)) + 1]
            /\ FailuresUpTo(i) <= Len(errors)
            /\ errors[FailuresUpTo(i)] = [name |-> log[i].name, err |-> "PreHookFailed"]

\* remove of two targets returned: a pre-hook of the first failed, the second
\* was removed by git
C4_Witness ==
    /\ cmd.kind = "remove"
    /\ pc = "done"
    /\ \E i \in Failed("pre") : \E j \in Ran("git_remove") :
          i < j /\ log[j].ok /\ log[i].name = cmd.names[1]
    /\ errors = <<[name |-> cmd.names[1], err |-> "PreHookFailed"]>>

\* the hooks hooks.toml configures for the running command and a phase
Configured(phase) ==
    IF hooksFile.exists /\ hooksFile.parses
    THEN CommandHooks(hooksFile.doc, cmd.kind)[phase]
    ELSE <<>>

\* what the command does between its pre-hooks and its post-hooks
OpEvents ==
    CASE cmd.kind = "create" -> {"git_add"}
      [] cmd.kind = "remove" -> {"git_remove"}
      [] cmd.kind = "switch" -> {"copy_envs", "save"}
      [] OTHER -> {}

(* C5: create, switch and every target of remove go through pre-hooks, the  *)
(* operation itself, post-hooks, in this order. When the operation starts   *)
(* every configured pre-hook of the command (or target) has run and         *)
(* succeeded; when a post-hook starts, so have they, and the operation has  *)
(* succeeded (for create and remove: git was invoked and returned success). *)
(* After a failed `git worktree add` or `git worktree remove` no post-hook  *)
(* runs for that command or target.                                         *)
C5_LifecycleOrder ==
    /\ \A i \in DOMAIN log : log[i].ev \in OpEvents \cup {"post"} =>
          LET pres == { j \in SegmentStart(i)..i : log[j].ev = "pre" } IN
          /\ Cardinality(pres) = Len(Configured("pre"))
          /\ \A j \in pres : log[j].ok /\ (log[i].ev /= "save" => log[j].name = log[i].name)
    /\ \A i \in Ran("post") :
          LET ops == { j \in SegmentStart(i)..Len(log) :
                         log[j].ev \in OpEvents /\ SegmentStart(j) = SegmentStart(i) }
          IN
          /\ \A j \in ops : j < i /\ log[j].ok
          /\ cmd.kind \in {"create", "remove"} =>
                \E j \in ops : log[j].name = log[i].name
    /\ \A i \in Failed("git_add") \cup Failed("git_remove") :
          \A j \in Ran("post") : SegmentStart(j) /= SegmentStart(i)

\* a create with two pre-hooks returned after `git worktree add` and a post-hook
C5_Witness ==
    /\ cmd.kind = "create"
    /\ Len(Configured("pre")) = 2
    /\ Ran("git_add") /= {}
    /\ Ran("post") /= {}
    /\ pc = "done"

HookEvents == Ran("pre") \cup Ran("post")

(* C6: the hooks of one list run one after the other in the order of the    *)
(* list: the k-th run of a phase is the k-th hook configured for it, the    *)
(* first is not preceded by a hook of the same run of the list, each later  *)
(* one directly follows the successful exit of the one before it, and after *)
(* a failed hook no further hook of that list is started (what follows, if  *)
(* anything, is the warning, the report, or the first pre-hook of the next  *)
(* target of remove).                                                       *)
C6_HooksRunInOrderUntilFailure ==
    \A i \in HookEvents :
        LET k == log[i].hook.i
            list == Configured(log[i].ev)
        IN
        /\ k \in 1..Len(list)
        /\ log[i].hook = list[k]
        /\ k = 1 => \/ SegmentStart(i) = i
                    \/ log[i - 1].ev /= log[i].ev
        /\ k > 1 => /\ log[i - 1].ev = log[i].ev
                    /\ log[i - 1].hook = list[k - 1]
                    /\ log[i - 1].name = log[i].name
                    /\ log[i - 1].ok
        /\ (~log[i].ok /\ i < Len(log)) =>
              \/ log[i + 1].ev \in {"warning", "eprintln_failed"}
              \/ /\ cmd.kind = "remove"
                 /\ log[i + 1].ev = "pre"
                 /\ log[i + 1].hook.i = 1
                 /\ SegmentStart(i + 1) = i + 1

\* a command returned after the first of two configured pre-hooks failed, and
\* the second was never started
C6_Witness ==
    /\ pc = "done"
    /\ cmd.kind = "switch"
    /\ Len(Configured("pre")) = 2
    /\ \E i \in Failed("pre") : log[i].hook.i = 1
    /\ Cardinality(Ran("pre")) = 1

\* both hooks of a list have run, the second after the first had succeeded
C6_WitnessBoth ==
    /\ pc = "done"
    /\ \E i \in Ran("post") : log[i].hook.i = 2

\* the shell is in the directory of a worktree (the bare repository is none)
InWorktree == Len(cwd) = 1 /\ cwd[1] \in Names

\* the state file holding the one line `previous=<name>`
PointerFile(name) == [exists |-> TRUE, content |-> PreviousKey \o name \o <<"\n">>]

(* C7: when a switch started in worktree A with a target B other than A has *)
(* returned Ok, the state file is the single line `previous=A`, whatever it *)
(* held before.                                                             *)
C7_SwitchSavesSource ==
    (/\ cmd.kind = "switch" /\ pc = "done" /\ result = Ok
     /\ InWorktree /\ cwd[1] /= ctx.worktree_name)
        => stateFile = PointerFile(cwd[1])

\* a switch from "a" to " b" returned Ok and replaced what the state file held
C7_Witness ==
    /\ cmd.kind = "switch" /\ pc = "done" /\ result = Ok
    /\ cwd = <<NameA>>
    /\ ctx.worktree_name = NamePadB
    /\ stateFile = PointerFile(NameA)
    /\ start.exists /\ start /= stateFile

(* C8, as stated: when a switch started in a worktree has returned Ok, the  *)
(* state file holds the name of that worktree, the one active immediately   *)
(* before this most recent successful switch.                               *)
C8_PointerHoldsSourceOfLastSwitch ==
    (cmd.kind = "switch" /\ pc = "done" /\ result = Ok /\ InWorktree)
        => stateFile = PointerFile(cwd[1])

\* the running command has recorded the worktree it was started in: a switch
\* past its save, started in a worktree other than its target, or a
\* create --switch that returned Ok, started in a worktree
Recorded ==
    \/ /\ cmd.kind = "switch"
       /\ pc \in {"post", "finish"} \/ (pc = "done" /\ result = Ok)
       /\ InWorktree /\ cwd[1] /= ctx.worktree_name
    \/ /\ cmd.kind = "create" /\ cmd.switch
       /\ pc = "done" /\ result = Ok
       /\ InWorktree

(* C8, amended: the state file changes only when a command records the      *)
(* worktree it was started in, and then holds `previous=<that worktree>`.   *)
(* The recording commands are a successful switch started in a worktree     *)
(* other than its target and a successful create --switch started in a      *)
(* worktree. In every other state, a successful switch to the worktree the  *)
(* shell is already in or from outside any worktree included, the file is   *)
(* as the command found it. So after any sequence of commands the file      *)
(* holds the source of the most recent recording command.                   *)
C8_PointerHoldsSourceOfLastRecording ==
    IF Recorded THEN stateFile = PointerFile(cwd[1]) ELSE stateFile = start

\* a switch from "a" to "a" returned Ok and left the whitespace-only state file
C8_Witness ==
    /\ cmd.kind = "switch" /\ pc = "done" /\ result = Ok
    /\ cwd = <<NameA>>
    /\ ctx.worktree_name = NameA
    /\ stateFile = start
    /\ stateFile.exists /\ stateFile /= PointerFile(NameA)

\* a create --switch started in " b" returned Ok and wrote the pointer
C8_WitnessCreate ==
    /\ cmd.kind = "create" /\ cmd.switch /\ pc = "done" /\ result = Ok
    /\ cwd = <<NamePadB>>
    /\ stateFile = PointerFile(NamePadB)
    /\ stateFile /= start

(* C9: after a successful switch from worktree A to a different worktree B  *)
(* the name that `switch -` resolves, the value read back from the state    *)
(* file, is A.                                                              *)
C9_ToggleResolvesToSource ==
    (/\ cmd.kind = "switch" /\ pc = "done" /\ result = Ok
     /\ InWorktree /\ cwd[1] /= ctx.worktree_name)
        => read_previous_worktree(stateFile) = Some(cwd[1])

\* a text of blanks only
RECURSIVE AllBlank(_)
AllBlank(s) == s = <<>> \/ (Head(s) \in Whitespace /\ AllBlank(Tail(s)))

\* no previous worktree is recorded: no file, or a blank value
NothingRecorded(file) ==
    \/ ~file.exists
    \/ /\ StripPrefix(file.content, PreviousKey) /= None
       /\ AllBlank(Unwrap(StripPrefix(file.content, PreviousKey)))

(* C10: `switch -` run in a hub whose state file is absent, or is readable  *)
(* and has an empty or blank value, has returned the "no previous worktree" *)
(* error without querying the worktree list, loading or running a hook, or  *)
(* writing the state file.                                                  *)
C10_SwitchDashWithoutPrevious ==
    (/\ cmd.kind = "switch" /\ cmd.name = Dash
     /\ HubFound
     /\ Failed("read_state") = {}
     /\ NothingRecorded(start))
        => /\ pc = "done"
           /\ result = Err("NoPreviousWorktree")
           /\ Ran("list") = {}
           /\ Ran("load_hooks") = {}
           /\ HookEvents = {}
           /\ Ran("save") = {}
           /\ stateFile = start

\* `switch -` returned the error on a state file whose value is two blanks
C10_Witness ==
    /\ cmd.kind = "switch" /\ cmd.name = Dash
    /\ pc = "done"
    /\ result = Err("NoPreviousWorktree")
    /\ start = [exists |-> TRUE, content |-> PreviousKey \o <<" ", " ", "\n">>]

\* `switch -` returned the error where there is no state file
C10_WitnessAbsent ==
    /\ cmd.kind = "switch" /\ cmd.name = Dash
    /\ pc = "done"
    /\ result = Err("NoPreviousWorktree")
    /\ ~start.exists

----------------------------------------------------------------------------
(* src/state.rs on its own: any sequence of saves and reads on one state file *)

MaxNameLen == 2     \* characters of a name handed to save_previous_worktree
MaxLines == 2       \* lines of a state file that was not written by save_previous_worktree

\* names: letters, blanks and newlines
NameChars == {"a", " ", "\n"}
SaveNames == SeqsUpTo(NameChars, MaxNameLen) \ {<<>>}

\* a line of a state file, with what the tests of state.rs expect of it: whether
\* it is of the form previous=<value>, and the value without the whitespace
\* around it (None when nothing is left)
StateLine(text, keyed, trimmed) == [text |-> text, keyed |-> keyed, trimmed |-> trimmed]
StateLines ==
    { StateLine(PreviousKey \o <<"a">>, TRUE, Some(<<"a">>)),
      StateLine(PreviousKey \o <<" ", "b", " ", "c", "\t">>, TRUE, Some(<<"b", " ", "c">>)),
      StateLine(PreviousKey, TRUE, None),
      StateLine(PreviousKey \o <<" ", "\t">>, TRUE, None),
      StateLine(<<"o", "t", "h", "e", "r", "=", "a">>, FALSE, None),
      StateLine(<<" ">> \o PreviousKey \o <<"a">>, FALSE, None) }

\* the text of a file with these lines
RECURSIVE Unlines(_)
Unlines(lines) ==
    IF lines = <<>> THEN <<>>
    ELSE Head(lines).text \o <<"\n">> \o Unlines(Tail(lines))

\* what is known of the state file: the lines it was found with (none once a save
\* has replaced them), the name of the last successful save, and how many
\* saves have succeeded (0, 1, or 2 for two and more)
StateArgument(exists, lines, name, saves) ==
    [exists |-> exists, lines |-> lines, name |-> name, saves |-> saves]

StateInit ==
    /\ \E exists \in BOOLEAN, lines \in SeqsUpTo(StateLines, MaxLines) :
          /\ ~exists => lines = <<>>
          /\ arg = StateArgument(exists, lines, <<>>, 0)
          /\ stateFile = [exists |-> exists, content |-> Unlines(lines)]
    /\ ret = NotCalled
    /\ trail = <<>>
    /\ registry = <<BareRecord>>
    /\ cwd = HubRoot
    /\ hooksFile \in { f \in HookFiles : ~f.exists }
    /\ pc = "idle"
    /\ cmd = NoCommand
    /\ hooks = None
    /\ ctx = NoContext
    /\ current = None
    /\ hookIdx = 0
    /\ tgtIdx = 0
    /\ errors = <<>>
    /\ result = NoResult
    /\ log = <<>>
    /\ start = stateFile

\* the session variables a call of the state store leaves alone
aroundStateFile == <<registry, cwd, hooksFile, pc, cmd, hooks, ctx, current,
                     hookIdx, tgtIdx, errors, result, log, start>>

\* a call of save_previous_worktree; create_dir_all or write may fail
StateSave(name, ok) ==
    /\ IF ok
       THEN /\ stateFile' = save_previous_worktree(name)
            /\ arg' = StateArgument(TRUE, <<>>, name, IF arg.saves = 0 THEN 1 ELSE 2)
            /\ ret' = Returned(None)
            /\ trail' = <<"save">>
       ELSE /\ ret' = Failure("StateWriteFailed")
            /\ trail' = <<"save_failed">>
            /\ UNCHANGED <<arg, stateFile>>
    /\ UNCHANGED aroundStateFile

\* a call of read_previous_worktree; read_to_string may fail on a file that exists
StateRead(ok) ==
    /\ IF stateFile.exists /\ ~ok
       THEN ret' = Failure("StateReadFailed")
       ELSE ret' = Returned(read_previous_worktree(stateFile))
    /\ trail' = IF stateFile.exists /\ ~ok THEN <<"read_failed">>
                ELSE IF trail = <<"save">> THEN <<"save", "read">>
                ELSE IF trail \in {<<>>, <<"first_read">>} THEN <<"first_read">>
                ELSE <<"read">>
    /\ UNCHANGED <<arg, stateFile, aroundStateFile>>

StateNext ==
    \/ \E name \in SaveNames, ok \in BOOLEAN : StateSave(name, ok)
    \/ \E ok \in BOOLEAN : StateRead(ok)

StateSpec == StateInit /\ [][StateNext]_vars

----------------------------------------------------------------------------
(* Properties of src/state.rs *)

(* C11: read_previous_worktree called right after a successful              *)
(* save_previous_worktree(name), for a non-empty name without a newline,    *)
(* returns Some(name), the name that was saved.                             *)
C11_SaveThenReadRoundTrips ==
    (/\ trail = <<"save", "read">>
     /\ \A i \in DOMAIN arg.name : arg.name[i] /= "\n")
        => ret = Returned(Some(arg.name))

\* what a reader of the lines expects: the value, without the whitespace around
\* it, of the first previous= line that has one
RECURSIVE FirstValue(_)
FirstValue(lines) ==
    IF lines = <<>> THEN None
    ELSE IF Head(lines).keyed /\ Head(lines).trimmed /= None THEN Head(lines).trimmed
    ELSE FirstValue(Tail(lines))

(* C12: read_previous_worktree on a readable or missing state file returns  *)
(* Ok: None when the file is missing, when no line is of the form           *)
(* previous=<value>, and when the value is empty or only whitespace         *)
(* (such a line is passed over); otherwise the value, without the           *)
(* whitespace around it, of the first previous= line that has one.          *)
C12_ReadReturnsFirstTrimmedValue ==
    trail = <<"first_read">> =>
        /\ ret.ret = "Ok"
        /\ ~arg.exists => ret.value = None
        /\ (\A i \in DOMAIN arg.lines : ~arg.lines[i].keyed) => ret.value = None
        /\ (\A i \in DOMAIN arg.lines : arg.lines[i].trimmed = None) => ret.value = None
        /\ ret.value = FirstValue(arg.lines)

\* a file whose first line has a padded value, read as that value without the padding
C12_Witness ==
    /\ trail = <<"first_read">>
    /\ Len(arg.lines) = 2
    /\ arg.lines[1].keyed /\ arg.lines[1].trimmed = Some(<<"b", " ", "c">>)
    /\ arg.lines[2].keyed /\ arg.lines[2].trimmed = Some(<<"a">>)
    /\ ret = Returned(Some(<<"b", " ", "c">>))

\* the cases that read as None: no file, no previous= line, a blank value
C12_WitnessNone ==
    /\ trail = <<"first_read">>
    /\ ret = Returned(None)
    /\ arg.exists
    /\ Len(arg.lines) = 2
    /\ ~arg.lines[1].keyed
    /\ arg.lines[2].keyed

(* C13: once a save has succeeded, the state file is exactly the one line   *)
(* previous=<name> of the last successful save, whatever the file held      *)
(* before and however many saves went before.                               *)
C13_SaveOverwrites ==
    arg.saves > 0 => stateFile = PointerFile(arg.name)

\* a second save has succeeded: the file is the line of its name
C13_Witness ==
    /\ trail = <<"save">>
    /\ arg.saves = 2
    /\ arg.name = <<"a">>
    /\ stateFile = PointerFile(<<"a">>)
    /\ ret = Returned(None)

----------------------------------------------------------------------------
(* Properties of the session, continued *)

(* C14: the record of the bare repository is left out of every listing and  *)
(* of every lookup by name: `wt list` prints no line for it, `wt switch`    *)
(* never takes it for its target, and `wt create --base` never takes it     *)
(* for the worktree to branch from.                                         *)
C14_BareRecordNeverResolved ==
    /\ \A i \in Ran("println_listed") :
          \A k \in DOMAIN registry :
              registry[k].head = BareHead => FileName(registry[k].path) /= Some(log[i].name)
    /\ cmd.kind = "switch" => ctx.worktree_path /= BareRecord.path
    /\ (cmd.kind = "create" /\ pc \in {"pre", "op", "post", "finish"}) =>
          BaseSha(cmd.base, registry) /= Some(BareHead)

----------------------------------------------------------------------------
(* src/git.rs on its own: parse_worktree_list *)

MaxEntries == 3     \* entries of a listing handed to parse_worktree_list

WorktreeKey == <<"w", "o", "r", "k", "t", "r", "e", "e", " ">>
HeadKey == <<"H", "E", "A", "D", " ">>
BranchKey == <<"b", "r", "a", "n", "c", "h", " ">>
BareLine == <<"b", "a", "r", "e">>

\* struct Worktree as the parser builds it: the path and the head are the text
\* of the listing, the branch is an Option
WorktreeRecord(path, head, branch) == [path |-> path, head |-> head, branch |-> branch]

\* the locals of parse_worktree_list
ParserState(worktrees, current_path, current_head, current_branch) ==
    [worktrees |-> worktrees, current_path |-> current_path,
     current_head |-> current_head, current_branch |-> current_branch]

\* `if let (Some(path), Some(head)) = (..) { worktrees.push(..) }`
Pushed(st) ==
    IF st.current_path /= None /\ st.current_head /= None
    THEN Append(st.worktrees, WorktreeRecord(Unwrap(st.current_path),
                                             Unwrap(st.current_head),
                                             st.current_branch))
    ELSE st.worktrees

\* ParseStep trimming the path, as read_previous_worktree trims its value
ParseStep_PathTrimmed(st, line) ==
    IF StripPrefix(line, WorktreeKey) /= None
    THEN ParserState(Pushed(st), Some(Trim(Unwrap(StripPrefix(line, WorktreeKey)))),
                     None, None)
    ELSE IF StripPrefix(line, HeadKey) /= None
    THEN [st EXCEPT !.current_head = StripPrefix(line, HeadKey)]
    ELSE IF StripPrefix(line, BranchKey) /= None
    THEN [st EXCEPT !.current_branch = StripPrefix(line, BranchKey)]
    ELSE IF line = BareLine
    THEN [st EXCEPT !.current_head = Some(BareHead)]
    ELSE st

\* ParseStep taking the `bare` line for one more attribute line it does not know
ParseStep_BareIgnored(st, line) ==
    IF StripPrefix(line, WorktreeKey) /= None
    THEN ParserState(Pushed(st), StripPrefix(line, WorktreeKey), None, None)
    ELSE IF StripPrefix(line, HeadKey) /= None
    THEN [st EXCEPT !.current_head = StripPrefix(line, HeadKey)]
    ELSE IF StripPrefix(line, BranchKey) /= None
    THEN [st EXCEPT !.current_branch = StripPrefix(line, BranchKey)]
    ELSE st

\* ParseStep emitting at a `worktree` line whatever has a path, with an empty
\* head when there is none
ParseStep_PathIsEnough(st, line) ==
    IF StripPrefix(line, WorktreeKey) /= None
    THEN ParserState(IF st.current_path /= None /\ st.current_head = None
                     THEN Append(st.worktrees, WorktreeRecord(Unwrap(st.current_path),
                                                              <<>>, st.current_branch))
                     ELSE Pushed(st),
                     StripPrefix(line, WorktreeKey), None, None)
    ELSE IF StripPrefix(line, HeadKey) /= None
    THEN [st EXCEPT !.current_head = StripPrefix(line, HeadKey)]
    ELSE IF StripPrefix(line, BranchKey) /= None
    THEN [st EXCEPT !.current_branch = StripPrefix(line, BranchKey)]
    ELSE IF line = BareLine
    THEN [st EXCEPT !.current_head = Some(BareHead)]
    ELSE st

\* ParseStep clearing the head and the branch only when it emitted a record
ParseStep_HeadKept(st, line) ==
    IF StripPrefix(line, WorktreeKey) /= None
    THEN IF st.current_path /= None /\ st.current_head /= None
         THEN ParserState(Pushed(st), StripPrefix(line, WorktreeKey), None, None)
         ELSE ParserState(st.worktrees, StripPrefix(line, WorktreeKey),
                          st.current_head, st.current_branch)
    ELSE IF StripPrefix(line, HeadKey) /= None
    THEN [st EXCEPT !.current_head = StripPrefix(line, HeadKey)]
    ELSE IF StripPrefix(line, BranchKey) /= None
    THEN [st EXCEPT !.current_branch = StripPrefix(line, BranchKey)]
    ELSE IF line = BareLine
    THEN [st EXCEPT !.current_head = Some(BareHead)]
    ELSE st

\* the body of the loop over the lines
ParseStep(st, line) ==
    IF StripPrefix(line, WorktreeKey) /= None
    THEN ParserState(Pushed(st), StripPrefix(line, WorktreeKey), None, None)
    ELSE IF StripPrefix(line, HeadKey) /= None
    THEN [st EXCEPT !.current_head = StripPrefix(line, HeadKey)]
    ELSE IF StripPrefix(line, BranchKey) /= None
    THEN [st EXCEPT !.current_branch = StripPrefix(line, BranchKey)]
    ELSE IF line = BareLine
    THEN [st EXCEPT !.current_head = Some(BareHead)]
    ELSE st

RECURSIVE ParseLines(_, _)
ParseLines(st, lines) ==
    IF lines = <<>> THEN st
    ELSE ParseLines(ParseStep(st, Head(lines)), Tail(lines))

\* parse_worktree_list without the push after the loop: the last entry is lost
parse_worktree_list_LastForgotten(output) ==
    ParseLines(ParserState(<<>>, None, None, None), Lines(output)).worktrees

parse_worktree_list(output) ==
    Pushed(ParseLines(ParserState(<<>>, None, None, None), Lines(output)))

\* an entry of a listing: its lines, and what they say (the path, the head if
\* there is a HEAD line, the branch if there is a branch line, whether there
\* is a `bare` line)
ListingEntry(path, head, branch, bare, lines) ==
    [path |-> path, head |-> head, branch |-> branch, bare |-> bare, lines |-> lines]

\* the bare repository
BareEntry ==
    ListingEntry(<<"/", ".", "b", "a", "r", "e">>, None, None, TRUE,
                 <<WorktreeKey \o <<"/", ".", "b", "a", "r", "e">>, BareLine>>)
\* a worktree on a branch
BranchEntry ==
    ListingEntry(<<"/", "a">>, Some(<<"1">>), Some(<<"r", "/", "m">>), FALSE,
                 <<WorktreeKey \o <<"/", "a">>, HeadKey \o <<"1">>,
                   BranchKey \o <<"r", "/", "m">>>>)
\* a worktree with a detached HEAD, in a directory whose name starts and ends with a blank
DetachedEntry ==
    ListingEntry(<<"/", " ", "b", " ">>, Some(<<"2">>), None, FALSE,
                 <<WorktreeKey \o <<"/", " ", "b", " ">>, HeadKey \o <<"2">>, <<"d", "e", "t", "a", "c", "h", "e", "d">>>>)
\* an entry cut short: it has no HEAD line and no `bare` line
HeadlessEntry ==
    ListingEntry(<<"/", "c">>, None, Some(<<"r", "/", "x">>), FALSE,
                 <<WorktreeKey \o <<"/", "c">>, BranchKey \o <<"r", "/", "x">>>>)

\* an entry whose HEAD line and branch line stand twice, with different values
RepeatedEntry ==
    ListingEntry(<<"/", "d">>, Some(<<"4">>), Some(<<"r", "/", "q">>), FALSE,
                 <<WorktreeKey \o <<"/", "d">>, HeadKey \o <<"3">>,
                   BranchKey \o <<"r", "/", "p">>, HeadKey \o <<"4">>,
                   BranchKey \o <<"r", "/", "q">>>>)

ListingEntries == {BareEntry, BranchEntry, DetachedEntry, HeadlessEntry, RepeatedEntry}

\* what may stand before the first `worktree` line: nothing, a HEAD line and
\* a branch line, a `bare` line
Preambles ==
    { <<>>,
      <<[text |-> HeadKey \o <<"9">>], [text |-> BranchKey \o <<"r", "/", "s">>]>>,
      <<[text |-> BareLine]>> }

\* the text git prints for the entries: their lines, a blank line after each
\* (git's output) or none (the tests of git.rs)
RECURSIVE ListingText(_, _)
ListingText(entries, blank) ==
    IF entries = <<>> THEN <<>>
    ELSE LET e == Head(entries) IN
         [i \in 1..Len(e.lines) |-> [text |-> e.lines[i]]]
         \o (IF blank THEN <<[text |-> <<>>]>> ELSE <<>>)
         \o ListingText(Tail(entries), blank)

\* the session at rest at the hub root, nothing configured
SessionAtRest ==
    /\ registry = <<BareRecord>>
    /\ cwd = HubRoot
    /\ stateFile = NoStateFile
    /\ hooksFile \in { f \in HookFiles : ~f.exists }
    /\ pc = "idle"
    /\ cmd = NoCommand
    /\ hooks = None
    /\ ctx = NoContext
    /\ current = None
    /\ hookIdx = 0
    /\ tgtIdx = 0
    /\ errors = <<>>
    /\ result = NoResult
    /\ log = <<>>
    /\ start = stateFile

ParseInit ==
    /\ \E entries \in SeqsUpTo(ListingEntries, MaxEntries), blank \in BOOLEAN,
          preamble \in Preambles :
          arg = [entries |-> entries, blank |-> blank, preamble |-> preamble,
                 output |-> Unlines(preamble \o ListingText(entries, blank))]
    /\ ret = NotCalled
    /\ trail = <<>>
    /\ SessionAtRest

\* a call of parse_worktree_list on the text
ParseCall ==
    /\ ret = NotCalled
    /\ ret' = Returned(parse_worktree_list(arg.output))
    /\ trail' = <<"parse">>
    /\ UNCHANGED <<arg, session>>

ParseNext == ParseCall

ParseSpec == ParseInit /\ [][ParseNext]_vars

----------------------------------------------------------------------------
(* Properties of parse_worktree_list *)

\* the entry has what makes a record: besides its path, a HEAD line or a `bare` line
Complete(e) == e.head /= None \/ e.bare
\* a listing as git prints it: every entry is complete
ValidListing == \A i \in DOMAIN arg.entries : Complete(arg.entries[i])
Parsed == trail = <<"parse">>
PathsOf(records) == [i \in DOMAIN records |-> records[i].path]

(* C15: for a valid listing, parse_worktree_list yields one record for      *)
(* every entry, whose path is the text after `worktree `, whose head is the *)
(* text after `HEAD ` and whose branch is the text after `branch `, each    *)
(* character for character as in the input, and None where the entry has   *)
(* no branch line.                                                          *)
C15_ParseRecoversFields ==
    (Parsed /\ ValidListing) =>
        /\ Len(ret.value) = Len(arg.entries)
        /\ \A i \in DOMAIN arg.entries :
              /\ ret.value[i].path = arg.entries[i].path
              /\ arg.entries[i].head /= None => Some(ret.value[i].head) = arg.entries[i].head
              /\ ret.value[i].branch = arg.entries[i].branch

\* a valid listing of three entries: the bare repository, a worktree with a
\* detached HEAD in a directory with blanks in its name, a worktree on a branch
C15_Witness ==
    /\ Parsed
    /\ arg.entries = <<BareEntry, DetachedEntry, BranchEntry>>
    /\ Len(ret.value) = 3
    /\ ret.value[2].branch = None
    /\ ret.value[3].branch = BranchEntry.branch

IsBare(e) == e.bare
IsWorktree(e) == ~e.bare /\ Complete(e)

(* C17: for a listing with exactly one bare entry and N complete entries    *)
(* that are not bare, parse_worktree_list returns N + 1 records, in the     *)
(* order in which their `worktree` lines stand in the text; for the empty   *)
(* listing it returns the empty sequence.                                   *)
C17_ParseKeepsCountAndOrder ==
    Parsed =>
        /\ Len(SelectSeq(arg.entries, IsBare)) = 1 =>
              /\ Len(ret.value) = Len(SelectSeq(arg.entries, IsWorktree)) + 1
              /\ PathsOf(ret.value) = PathsOf(SelectSeq(arg.entries, Complete))
        /\ arg.output = <<>> => ret.value = <<>>

\* the bare repository and two worktrees, parsed into three records in this order
C17_Witness ==
    /\ Parsed
    /\ arg.entries = <<BareEntry, BranchEntry, DetachedEntry>>
    /\ arg.blank
    /\ PathsOf(ret.value) = <<BareEntry.path, BranchEntry.path, DetachedEntry.path>>

\* the empty listing
C17_WitnessEmpty ==
    /\ Parsed
    /\ arg.output = <<>>
    /\ ret.value = <<>>

(* C18: parse_worktree_list returns (it has no error to return) the records *)
(* of exactly the entries that have a path and a head: an entry with no     *)
(* HEAD line and no `bare` line before the next `worktree` line or the end  *)
(* of the text is left out, the entries before and after it are emitted,    *)
(* and what it had (its branch) goes to no other record.                    *)
C18_HeadlessEntryIsDropped ==
    Parsed =>
        LET kept == SelectSeq(arg.entries, Complete) IN
        /\ ret.ret = "Ok"
        /\ Len(ret.value) = Len(kept)
        /\ \A i \in DOMAIN kept :
              /\ ret.value[i].path = kept[i].path
              /\ ret.value[i].head = (IF kept[i].bare THEN BareHead ELSE Unwrap(kept[i].head))
              /\ ret.value[i].branch = (IF kept[i].bare THEN None ELSE kept[i].branch)

\* an entry without a head between two complete ones, and one at the end
C18_Witness ==
    /\ Parsed
    /\ arg.entries = <<BranchEntry, HeadlessEntry, DetachedEntry>>
    /\ PathsOf(ret.value) = <<BranchEntry.path, DetachedEntry.path>>

C18_WitnessLast ==
    /\ Parsed
    /\ arg.entries = <<BareEntry, HeadlessEntry>>
    /\ PathsOf(ret.value) = <<BareEntry.path>>

\* the lines of an entry that give a head, and those that give a branch
IsHeadLine(line) == StripPrefix(line, HeadKey) /= None \/ line = BareLine
IsBranchLine(line) == StripPrefix(line, BranchKey) /= None
\* the head a line gives
HeadOfLine(line) == IF line = BareLine THEN BareHead ELSE Unwrap(StripPrefix(line, HeadKey))
Last(seq) == seq[Len(seq)]
\* the entries with a line that gives a head, found from their lines
WithHeadLine(e) == SelectSeq(e.lines, IsHeadLine) /= <<>>

(* C37: every emitted record belongs to one entry that has a line giving a  *)
(* head, in order, and its head and its branch are those of the last such   *)
(* line among that entry's own lines (no branch when the entry has no       *)
(* branch line): what stands before the first `worktree` line, or in an     *)
(* entry that is dropped, attaches to no record.                            *)
C37_FieldsFromOwnLines ==
    Parsed =>
        LET own == SelectSeq(arg.entries, WithHeadLine) IN
        /\ Len(ret.value) = Len(own)
        /\ \A i \in DOMAIN own :
              LET heads == SelectSeq(own[i].lines, IsHeadLine)
                  branches == SelectSeq(own[i].lines, IsBranchLine)
              IN /\ ret.value[i].path = Unwrap(StripPrefix(own[i].lines[1], WorktreeKey))
                 /\ ret.value[i].head = HeadOfLine(Last(heads))
                 /\ ret.value[i].branch =
                       (IF branches = <<>> THEN None
                        ELSE StripPrefix(Last(branches), BranchKey))

\* a HEAD line and a branch line before the first `worktree` line, then an
\* entry without a head, then a worktree with a detached HEAD: one record,
\* with the head of its own entry and no branch
C37_Witness ==
    /\ Parsed
    /\ Len(arg.preamble) = 2
    /\ arg.entries = <<HeadlessEntry, DetachedEntry>>
    /\ ret.value = <<WorktreeRecord(DetachedEntry.path, <<"2">>, None)>>

\* a `bare` line before the first `worktree` line, then an entry cut short
\* alone: no record
C37_WitnessBare ==
    /\ Parsed
    /\ arg.preamble = <<[text |-> BareLine]>>
    /\ arg.entries = <<HeadlessEntry>>
    /\ ret.value = <<>>

\* an entry with two HEAD lines and two branch lines: the later ones are kept
C37_WitnessRepeated ==
    /\ Parsed
    /\ arg.entries = <<RepeatedEntry>>
    /\ ret.value = <<WorktreeRecord(RepeatedEntry.path, <<"4">>, Some(<<"r", "/", "q">>))>>

----------------------------------------------------------------------------
(* src/git.rs on its own: find_hub_root, the walk up the directory tree.   *)
(* Here a path is the sequence of its components from the file-system      *)
(* root, "." and ".." among them until something resolves them.            *)

MaxDepth == 3       \* directories below the worktree directory the walk may start in

\* Path::components: a "." inside a path is dropped
RECURSIVE Components(_)
Components(path) ==
    IF path = <<>> THEN <<>>
    ELSE IF Head(path) = "." THEN Components(Tail(path))
    ELSE <<Head(path)>> \o Components(Tail(path))

\* Path::parent: None for the root
Parent(path) ==
    LET c == Components(path) IN
    IF c = <<>> THEN None ELSE Some(SubSeq(c, 1, Len(c) - 1))

\* what the file system makes of a path: every ".." takes back one component
RECURSIVE Resolve(_, _)
Resolve(path, acc) ==
    IF path = <<>> THEN acc
    ELSE IF Head(path) = "." THEN Resolve(Tail(path), acc)
    ELSE IF Head(path) = ".."
         THEN Resolve(Tail(path), IF acc = <<>> THEN <<>> ELSE SubSeq(acc, 1, Len(acc) - 1))
    ELSE Resolve(Tail(path), Append(acc, Head(path)))

\* Path::exists, for a directory
Exists(fs, path) == Resolve(path, <<>>) \in fs.dirs

\* Path::canonicalize, and the path as it is where that fails
Canonical(fs, path) == IF Exists(fs, path) THEN Resolve(path, <<>>) ELSE path

\* the directories of the model: a hub, a worktree in it with directories
\* below, a second hub, a directory that belongs to nothing
Hub == <<"h">>
WorktreeDir == <<"h", "w">>
OtherHub == <<"o">>
Elsewhere == <<"n">>
BareOf(dir) == Append(dir, ".bare")

RECURSIVE Below(_, _)
Below(dir, n) == IF n = 0 THEN dir ELSE Append(Below(dir, n - 1), "x")

\* a `.git` entry of a directory: none, a directory, a file that cannot be
\* read as text (bytes that are not UTF-8: it holds no `gitdir: ` line), a
\* file with its content
NoGit == [kind |-> "none", prefixed |-> FALSE, absolute |-> FALSE, gitdir |-> <<>>]
GitDirectory == [NoGit EXCEPT !.kind = "dir"]
Unreadable == [NoGit EXCEPT !.kind = "unreadable"]
GitFile(prefixed, absolute, gitdir) ==
    [kind |-> "file", prefixed |-> prefixed, absolute |-> absolute, gitdir |-> gitdir]

\* the `.git` file git writes into a worktree: gitdir: <hub>/.bare/worktrees/w
WorktreeGitFile == GitFile(TRUE, TRUE, <<"h", ".bare", "worktrees", "w">>)
\* the `.git` file `wt clone` writes into the hub: gitdir: ./.bare
CloneGitFile == GitFile(TRUE, FALSE, <<".", ".bare">>)
\* a file that points to the bare repository one directory up: gitdir: ../.bare
UpGitFile == GitFile(TRUE, FALSE, <<"..", ".bare">>)
\* a file that points into the second hub: gitdir: /o/.bare
OtherGitFile == GitFile(TRUE, TRUE, <<"o", ".bare">>)
\* a file that points to a directory that is gone: gitdir: /g/.bare
DanglingGitFile == GitFile(TRUE, TRUE, <<"g", ".bare">>)
\* a file that does not start with `gitdir: `
OddGitFile == GitFile(FALSE, FALSE, <<>>)

\* a file system: the directories, and the `.git` entry of each
FileSystem(hubBare, otherBare, rootBare, nestedBare, hubGit, worktreeGit, nestedGit) ==
    [dirs |-> { Below(WorktreeDir, n) : n \in 0..MaxDepth }
              \cup {<<>>, Hub, OtherHub, Elsewhere, <<"h", ".bare", "worktrees">>,
                    <<"h", ".bare", "worktrees", "w">>}
              \cup (IF hubBare THEN {BareOf(Hub)} ELSE {})
              \cup (IF otherBare THEN {BareOf(OtherHub)} ELSE {})
              \cup (IF rootBare THEN {BareOf(<<>>)} ELSE {})
              \cup (IF nestedBare THEN {BareOf(Below(WorktreeDir, 1))} ELSE {}),
     git |-> [d \in {Hub, WorktreeDir, Below(WorktreeDir, 1)} |->
                 IF d = Hub THEN hubGit
                 ELSE IF d = WorktreeDir THEN worktreeGit
                 ELSE nestedGit]]

GitOf(fs, dir) == IF dir \in DOMAIN fs.git THEN fs.git[dir] ELSE NoGit

FileSystems ==
    { FileSystem(hb, ob, rb, nb, hg, wg, ng) :
        hb \in BOOLEAN, ob \in BOOLEAN, rb \in BOOLEAN, nb \in BOOLEAN,
        hg \in {NoGit, CloneGitFile},
        wg \in {NoGit, GitDirectory, Unreadable, WorktreeGitFile, UpGitFile,
                OtherGitFile, DanglingGitFile, OddGitFile},
        ng \in {NoGit, OtherGitFile, Unreadable} }

\* std::env::current_dir()
StartDirs ==
    { Below(WorktreeDir, n) : n \in 0..MaxDepth }
    \cup {<<>>, Hub, BareOf(Hub), OtherHub, Elsewhere}

HubInit ==
    /\ \E fs \in FileSystems, dir \in StartDirs :
          /\ Exists(fs, dir)
          /\ arg = [fs |-> fs, current_dir |-> dir]
    /\ ret = NotCalled
    /\ trail = <<>>
    /\ SessionAtRest

\* `dir`, the directory the loop is at
WalkDir == trail[Len(trail)]

\* line 48: the walk starts in the current directory
FindStart ==
    /\ ret = NotCalled
    /\ trail = <<>>
    /\ trail' = <<arg.current_dir>>
    /\ UNCHANGED <<arg, ret, session>>

\* lines 51-54: the directory holds `.bare`
FindBare ==
    /\ ret = NotCalled
    /\ trail /= <<>>
    /\ Exists(arg.fs, BareOf(WalkDir))
    /\ ret' = Returned(Some(WalkDir))
    /\ UNCHANGED <<arg, trail, session>>

\* HubOfGitFile without the test of line 76: the parent of the gitdir is taken
\* for the hub root whether it holds `.bare` or not
HubOfGitFile_Unchecked(fs, dir) ==
    LET git == GitOf(fs, dir)
        gitdir_path == IF git.absolute THEN git.gitdir ELSE dir \o git.gitdir
        parent == Parent(gitdir_path)
    IN IF git.kind = "file" /\ git.prefixed /\ parent /= None
       THEN Some(Canonical(fs, Unwrap(parent)))
       ELSE None

\* the hub root a `.git` file leads to, if it leads to one (lines 63-79)
HubOfGitFile(fs, dir) ==
    LET git == GitOf(fs, dir)
        gitdir_path == IF git.absolute THEN git.gitdir ELSE dir \o git.gitdir
        parent == Parent(gitdir_path)
    IN IF git.kind = "file" /\ git.prefixed /\ parent /= None
          /\ Exists(fs, BareOf(Canonical(fs, Unwrap(parent))))
       THEN Some(Canonical(fs, Unwrap(parent)))
       ELSE None

\* lines 57-61: the directory holds a `.git` file that cannot be read
FindUnreadable ==
    /\ ret = NotCalled
    /\ trail /= <<>>
    /\ ~Exists(arg.fs, BareOf(WalkDir))
    /\ GitOf(arg.fs, WalkDir).kind = "unreadable"
    /\ ret' = Failure("CannotReadGitFile")
    /\ UNCHANGED <<arg, trail, session>>

\* FindGitFile for which a `.git` file ends the walk: where the file leads to
\* no hub the search fails there
FindGitFile_EndsTheWalk ==
    /\ ret = NotCalled
    /\ trail /= <<>>
    /\ ~Exists(arg.fs, BareOf(WalkDir))
    /\ GitOf(arg.fs, WalkDir).kind = "file"
    /\ ret' = IF HubOfGitFile(arg.fs, WalkDir) /= None
              THEN Returned(HubOfGitFile(arg.fs, WalkDir))
              ELSE Failure("NotAWorktreeRepo")
    /\ UNCHANGED <<arg, trail, session>>

\* lines 57-79: the directory holds a `.git` file that leads to a hub
FindGitFile ==
    /\ ret = NotCalled
    /\ trail /= <<>>
    /\ ~Exists(arg.fs, BareOf(WalkDir))
    /\ HubOfGitFile(arg.fs, WalkDir) /= None
    /\ ret' = Returned(HubOfGitFile(arg.fs, WalkDir))
    /\ UNCHANGED <<arg, trail, session>>

\* the directory resolves nothing
NoMarker(fs, dir) ==
    /\ ~Exists(fs, BareOf(dir))
    /\ GitOf(fs, dir).kind /= "unreadable"
    /\ HubOfGitFile(fs, dir) = None

\* FindUp that looks in the start directory only: with no marker there the
\* walk gives up
FindUp_GivesUp ==
    /\ ret = NotCalled
    /\ trail /= <<>>
    /\ NoMarker(arg.fs, WalkDir)
    /\ Parent(WalkDir) /= None
    /\ ret' = Failure("NotAWorktreeRepo")
    /\ UNCHANGED <<arg, trail, session>>

\* lines 84-85: one directory up
FindUp ==
    /\ ret = NotCalled
    /\ trail /= <<>>
    /\ NoMarker(arg.fs, WalkDir)
    /\ Parent(WalkDir) /= None
    /\ trail' = Append(trail, Unwrap(Parent(WalkDir)))
    /\ UNCHANGED <<arg, ret, session>>

\* FindEnd taking the root for its own parent: the walk starts over
FindEnd_StartsOver ==
    /\ ret = NotCalled
    /\ trail /= <<>>
    /\ NoMarker(arg.fs, WalkDir)
    /\ Parent(WalkDir) = None
    /\ Len(trail) > 1
    /\ trail' = <<arg.current_dir>>
    /\ UNCHANGED <<arg, ret, session>>

\* lines 86, 90-92: the root resolved nothing
FindEnd ==
    /\ ret = NotCalled
    /\ trail /= <<>>
    /\ NoMarker(arg.fs, WalkDir)
    /\ Parent(WalkDir) = None
    /\ ret' = Failure("NotAWorktreeRepo")
    /\ UNCHANGED <<arg, trail, session>>

HubNext ==
    \/ FindStart
    \/ FindBare
    \/ FindUnreadable
    \/ FindGitFile
    \/ FindUp
    \/ FindEnd

\* find_hub_root is a loop of one thread: it goes on as long as it has a step to take
HubSpec == HubInit /\ [][HubNext]_vars /\ WF_vars(HubNext)

----------------------------------------------------------------------------
(* Properties of find_hub_root *)

Finished == ret.ret /= "none"
HubHasBare == Exists(arg.fs, BareOf(Hub))
\* the directories from which the walk may start inside the worktree
InsideWorktree == { Below(WorktreeDir, n) : n \in 0..MaxDepth }
\* the directories from `dir` up to the worktree directory
UpToWorktree(dir) == { d \in InsideWorktree : Len(d) <= Len(dir) }
\* the directory holds no marker that resolves to another place than the hub,
\* and its `.git` file, if it has one, can be read
NothingNearer(dir) ==
    /\ ~Exists(arg.fs, BareOf(dir))
    /\ GitOf(arg.fs, dir).kind /= "unreadable"
    /\ HubOfGitFile(arg.fs, dir) \in {None, Some(Hub)}

Ancestors(dir) == { SubSeq(dir, 1, k) : k \in 0..Len(dir) }

\* the walk goes up: every directory it is at is strictly above the ones before
WalkGoesUp ==
    \A i, j \in DOMAIN trail :
        i < j => Len(trail[j]) < Len(trail[i]) /\ StartsWith(trail[i], trail[j])

\* nothing resolves from the start directory up to the root
NothingResolves == \A d \in Ancestors(arg.current_dir) : NoMarker(arg.fs, d)

Unresolved(dir) ==
    /\ ~Exists(arg.fs, BareOf(dir))
    /\ HubOfGitFile(arg.fs, dir) = None

\* the `.git` entry of the directory, if it is a file, can be read
Readable(dir) == GitOf(arg.fs, dir).kind /= "unreadable"

\* the walk is at a directory and has not returned
Walking == ret = NotCalled /\ trail /= <<>>

\* the step goes on with the parent directory
GoesUp ==
    /\ Parent(WalkDir) /= None
    /\ trail' = Append(trail, Unwrap(Parent(WalkDir)))
    /\ ret' = NotCalled

(* C24 as stated: at every ancestor where neither marker resolves the       *)
(* search goes on with the parent directory, and the search fails only      *)
(* after the root of the file system has been checked.                      *)
C24_ContinuesUntilRoot ==
    /\ [][(Walking /\ Unresolved(WalkDir) /\ Parent(WalkDir) /= None) => GoesUp]_vars
    /\ [](ret.ret = "Err" => (WalkDir = <<>> /\ Unresolved(<<>>)))

(* C24, amended: at every ancestor where neither marker resolves and whose  *)
(* `.git` file, if it has one, can be read, the search goes on with the     *)
(* parent directory, and it fails with NotAWorktreeRepo only after the root *)
(* of the file system has been checked; at an ancestor without `.bare`      *)
(* whose `.git` file cannot be read the search fails at once with the read  *)
(* error.                                                                   *)
C24_ContinuesUntilRootIfReadable ==
    /\ [][(/\ Walking
           /\ Unresolved(WalkDir)
           /\ Readable(WalkDir)
           /\ Parent(WalkDir) /= None) => GoesUp]_vars
    /\ [][(/\ Walking
           /\ ~Exists(arg.fs, BareOf(WalkDir))
           /\ ~Readable(WalkDir))
              => (ret' = Failure("CannotReadGitFile") /\ trail' = trail)]_vars
    /\ [](ret = Failure("NotAWorktreeRepo") => (WalkDir = <<>> /\ Unresolved(<<>>)))
    /\ [](ret.ret = "Err" =>
             \/ ret = Failure("NotAWorktreeRepo")
             \/ ret = Failure("CannotReadGitFile") /\ ~Readable(WalkDir))

\* the walk passed a worktree whose `.git` file points to a directory that
\* is gone, and went on to the root, where it failed
C24_Witness ==
    /\ arg.current_dir = Below(WorktreeDir, 1)
    /\ GitOf(arg.fs, WorktreeDir) = DanglingGitFile
    /\ Len(trail) = 4
    /\ WalkDir = <<>>
    /\ ret = Failure("NotAWorktreeRepo")

\* the walk passed a `.git` file without a `gitdir: ` line and a `.git`
\* directory, and found the hub above them
C24_WitnessFound ==
    /\ arg.current_dir = Below(WorktreeDir, 1)
    /\ GitOf(arg.fs, WorktreeDir) \in {OddGitFile, GitDirectory}
    /\ trail = <<Below(WorktreeDir, 1), WorktreeDir, Hub>>
    /\ ret = Returned(Some(Hub))

\* the directory resolves: it holds `.bare`, or a `.git` file that leads to a hub
Resolving(dir) == ~Unresolved(dir)

\* the hub root the directory determines: the directory itself when it holds
\* `.bare`, whatever its `.git` file says, and else what the `.git` file leads to
HubAt(dir) ==
    IF Exists(arg.fs, BareOf(dir)) THEN Some(dir) ELSE HubOfGitFile(arg.fs, dir)

\* the ancestors of the start directory, itself included, nearer to it than `dir`
Nearer(dir) == { e \in Ancestors(arg.current_dir) : Len(e) > Len(dir) }

(* C25: what find_hub_root returns is the hub root determined by the        *)
(* nearest ancestor of the start directory, itself included, at which a     *)
(* marker resolves. At one ancestor `.bare` goes before the `.git` file:    *)
(* a directory that holds `.bare` is the hub root whatever its `.git` file  *)
(* points to. A `.git` pointer is taken only if the parent of the gitdir    *)
(* holds `.bare`: every hub root returned holds `.bare`.                    *)
C25_NearestResolvingAncestor ==
    /\ (Finished /\ ret.ret = "Ok") =>
          /\ Resolving(WalkDir)
          /\ \A e \in Nearer(WalkDir) : Unresolved(e)
          /\ ret.value = HubAt(WalkDir)
          /\ Exists(arg.fs, BareOf(WalkDir)) => ret.value = Some(WalkDir)
          /\ \A h \in ret.value : Exists(arg.fs, BareOf(h))
    /\ Finished =>
          \A d \in Ancestors(arg.current_dir) :
              (/\ Resolving(d)
               /\ \A e \in Nearer(d) : Unresolved(e) /\ Readable(e)
               /\ Exists(arg.fs, BareOf(d)) \/ Readable(d))
                  => ret = Returned(HubAt(d))

\* the start directory holds `.bare` and a `.git` file that leads to the
\* other hub: it is the hub root itself
C25_Witness ==
    /\ arg.current_dir = Below(WorktreeDir, 1)
    /\ Exists(arg.fs, BareOf(Below(WorktreeDir, 1)))
    /\ GitOf(arg.fs, Below(WorktreeDir, 1)) = OtherGitFile
    /\ Exists(arg.fs, BareOf(OtherHub))
    /\ ret = Returned(Some(Below(WorktreeDir, 1)))

\* the nearest marker is a `.git` file that leads to the other hub, below a
\* hub that holds `.bare`
C25_WitnessGitFile ==
    /\ arg.current_dir = Below(WorktreeDir, 2)
    /\ GitOf(arg.fs, WorktreeDir) = OtherGitFile
    /\ Exists(arg.fs, BareOf(Hub))
    /\ ret = Returned(Some(OtherHub))

\* a `.git` file whose gitdir has no `.bare` beside it was passed over
C25_WitnessRejected ==
    /\ arg.current_dir = WorktreeDir
    /\ GitOf(arg.fs, WorktreeDir) = WorktreeGitFile
    /\ ret = Returned(Some(Hub))

----------------------------------------------------------------------------
(* src/commands/switch.rs: two invocations at once *)

\* two shells in the same hub, each running one `wt switch`
Shells == {"s1", "s2"}

NameC == <<"c">>
RaceRegistry ==
    <<BareRecord, Worktree(Join(HubRoot, NameA), <<"1">>),
      Worktree(Join(HubRoot, NameC), <<"2">>)>>

\* what an invocation did: `target` and `current` are its target_name and
\* its current_worktree, `saved` the name it wrote to the state file
RaceEvent(shell, ev, target, found, saved) ==
    [shell |-> shell, ev |-> ev, target |-> target, current |-> found, saved |-> saved]

\* the events of the shell so far
EventsOf(shell) == { i \in DOMAIN trail : trail[i].shell = shell }
\* where the invocation of the shell is: the last thing it did
LastOf(shell) ==
    LET mine == EventsOf(shell) IN
    trail[CHOOSE i \in mine : \A j \in mine : j <= i]

RaceInit ==
    /\ arg \in [Shells -> [cwd : {HubRoot, Join(HubRoot, NameA), Join(HubRoot, NameC)},
                           name : {NameA, NameC, Dash}]]
    /\ ret = [s \in Shells |-> NotCalled]
    /\ trail = <<>>
    /\ stateFile \in {NoStateFile, save_previous_worktree(NameA)}
    /\ registry = RaceRegistry
    /\ cwd = HubRoot
    /\ hooksFile \in { f \in HookFiles : ~f.exists }
    /\ pc = "idle"
    /\ cmd = NoCommand
    /\ hooks = None
    /\ ctx = NoContext
    /\ current = None
    /\ hookIdx = 0
    /\ tgtIdx = 0
    /\ errors = <<>>
    /\ result = NoResult
    /\ log = <<>>
    /\ start = stateFile

\* run(), lines 14-37 in one shell: the target is resolved, for "-" from the
\* state file as it is now; the current worktree is found; the target is
\* looked up (there are no hooks to run)
RaceResolve(shell) ==
    /\ EventsOf(shell) = {}
    /\ LET previous == read_previous_worktree(stateFile)
           target == IF arg[shell].name = Dash THEN previous ELSE Some(arg[shell].name)
           found == IF target = None THEN None ELSE FindByName(registry, Unwrap(target))
           mine == get_current_worktree_name(arg[shell].cwd, registry)
       IN
       IF target = None
       THEN /\ ret' = [ret EXCEPT ![shell] = Failure("NoPreviousWorktree")]
            /\ trail' = Append(trail, RaceEvent(shell, "failed", None, None, None))
       ELSE IF found = None
       THEN /\ ret' = [ret EXCEPT ![shell] = Failure("WorktreeNotFound")]
            /\ trail' = Append(trail, RaceEvent(shell, "failed", target, mine, None))
       ELSE /\ trail' = Append(trail, RaceEvent(shell, "resolved", target, mine, None))
            /\ UNCHANGED ret
    /\ UNCHANGED <<arg, session>>

\* RaceSave that looks at the state file again before it writes: when the
\* file is not what the invocation found, it reports the conflict
RaceSave_DetectsConflict(shell) ==
    /\ EventsOf(shell) /= {}
    /\ LastOf(shell).ev = "resolved"
    /\ LET last == LastOf(shell)
           saving == last.current /= None /\ last.current /= last.target
       IN
       IF saving /\ stateFile /= start
       THEN /\ ret' = [ret EXCEPT ![shell] = Failure("Conflict")]
            /\ trail' = Append(trail, RaceEvent(shell, "failed", last.target,
                                                last.current, None))
            /\ UNCHANGED stateFile
       ELSE /\ stateFile' = IF saving THEN save_previous_worktree(Unwrap(last.current))
                            ELSE stateFile
            /\ trail' = Append(trail,
                    RaceEvent(shell, IF saving THEN "saved" ELSE "skipped", last.target,
                              last.current, IF saving THEN last.current ELSE None))
            /\ UNCHANGED ret
    /\ UNCHANGED <<arg, aroundStateFile>>

\* run(), lines 53-58 in one shell: the current worktree, if there is one
\* and it is not the target, is written to the state file
RaceSave(shell) ==
    /\ EventsOf(shell) /= {}
    /\ LastOf(shell).ev = "resolved"
    /\ LET last == LastOf(shell)
           saving == last.current /= None /\ last.current /= last.target
       IN
       /\ stateFile' = IF saving THEN save_previous_worktree(Unwrap(last.current))
                       ELSE stateFile
       /\ trail' = Append(trail,
               RaceEvent(shell, IF saving THEN "saved" ELSE "skipped", last.target,
                         last.current, IF saving THEN last.current ELSE None))
    /\ UNCHANGED <<arg, ret, aroundStateFile>>

\* run(), lines 60-66 in one shell: the path is printed, run() returns Ok
RaceFinish(shell) ==
    /\ EventsOf(shell) /= {}
    /\ LastOf(shell).ev \in {"saved", "skipped"}
    /\ ret' = [ret EXCEPT ![shell] = Returned(LastOf(shell).target)]
    /\ trail' = Append(trail, RaceEvent(shell, "printed", LastOf(shell).target,
                                        LastOf(shell).current, None))
    /\ UNCHANGED <<arg, session>>

RaceNext ==
    \E shell \in Shells :
        \/ RaceResolve(shell)
        \/ RaceSave(shell)
        \/ RaceFinish(shell)

RaceSpec == RaceInit /\ [][RaceNext]_vars

----------------------------------------------------------------------------
(* Properties of two invocations at once *)

\* the writes to the state file so far
Saves == { i \in DOMAIN trail : trail[i].ev = "saved" }

(* C23: nothing orders two `wt switch` in the same hub. Whatever the        *)
(* interleaving of their steps, the state file holds what the last save     *)
(* wrote (or is as it was when none saved), an invocation that has resolved *)
(* its target never fails after that, and each one that saved returns Ok:   *)
(* an update that another save overwrote is neither detected nor reported.  *)
C23_LastWriterWins ==
    /\ Saves = {} => stateFile = start
    /\ Saves /= {} =>
          LET last == CHOOSE i \in Saves : \A j \in Saves : j <= i IN
          stateFile = PointerFile(Unwrap(trail[last].saved))
    /\ \A s \in Shells :
          /\ ret[s].ret = "Err" => (EventsOf(s) /= {} /\ \A i \in EventsOf(s) : trail[i].ev = "failed")
          /\ (EventsOf(s) /= {} /\ LastOf(s).ev = "printed") => ret[s].ret = "Ok"

\* both invocations found their current worktree, then both saved it: the
\* two returned Ok, and the pointer of the first to save is lost
C23_Witness ==
    /\ Len(trail) = 6
    /\ trail[1].ev = "resolved" /\ trail[2].ev = "resolved"
    /\ trail[3].ev = "saved" /\ trail[4].ev = "saved"
    /\ trail[3].shell /= trail[4].shell
    /\ trail[3].saved /= trail[4].saved
    /\ \A s \in Shells : ret[s].ret = "Ok"
    /\ stateFile = PointerFile(Unwrap(trail[4].saved))
    /\ stateFile /= PointerFile(Unwrap(trail[3].saved))

\* a `wt switch -` resolved its target from the pointer before the other
\* invocation overwrote it, and went there all the same
C23_WitnessStale ==
    \E s, t \in Shells :
        /\ s /= t
        /\ arg[s].name = Dash
        /\ Len(trail) >= 2
        /\ trail[1] = RaceEvent(s, "resolved", Some(NameA), trail[1].current, None)
        /\ trail[2].shell = t /\ trail[2].ev = "resolved"
        /\ \E i \in Saves : trail[i].shell = t /\ trail[i].saved = Some(NameC)
        /\ ret[s] = Returned(Some(NameA))

----------------------------------------------------------------------------
(* Properties of the session: the hook configuration *)

\* hooks.toml is missing or does not parse
Unloadable == ~hooksFile.exists \/ ~hooksFile.parses
\* the command has called load_hooks
Loaded == Ran("load_hooks") /= {}
Phases == {"pre", "post"}

(* C21: hooks are opt-in. With hooks.toml missing or not parsing, load_hooks *)
(* returns none, and the command goes on as with a configuration of empty   *)
(* lists: the lists handed to run_hooks are the empty ones of the empty     *)
(* configuration, no pre-hook and no post-hook is started, no warning is    *)
(* printed, and the command does not fail on a hook.                        *)
C21_HooksAreOptIn ==
    Unloadable =>
        /\ load_hooks(hooksFile) = None
        /\ hooks = None
        /\ PreList = HooksConfig(EmptyDoc)[IF cmd.kind \in Sections THEN cmd.kind
                                          ELSE "create"].pre
        /\ PostList = HooksConfig(EmptyDoc)[IF cmd.kind \in Sections THEN cmd.kind
                                           ELSE "create"].post
        /\ PreList = <<>> /\ PostList = <<>>
        /\ Ran("pre") = {} /\ Ran("post") = {} /\ Ran("warning") = {}
        /\ result.err /= "PreHookFailed"
        /\ \A i \in DOMAIN errors : errors[i].err /= "PreHookFailed"

\* a create that succeeded although hooks.toml has a syntax error
C21_Witness ==
    /\ hooksFile.exists /\ ~hooksFile.parses
    /\ cmd.kind = "create"
    /\ Loaded
    /\ result = Ok
    /\ \E i \in Ran("git_add") : log[i].ok

\* the command names that have no section of their own
OtherCommands == {"list", "clone", "init", ""}

\* the hook is the k-th of the list `phase` of section `section` in hooks.toml
IsListed(hook, section, phase) ==
    /\ section \in DOMAIN hooksFile.doc
    /\ phase \in DOMAIN hooksFile.doc[section]
    /\ \E k \in DOMAIN hooksFile.doc[section][phase] :
          hooksFile.doc[section][phase][k] = hook

(* C27: every hook a command starts stands in the section of hooks.toml     *)
(* named after the command, in the list of the phase it is started in:      *)
(* create runs only `create` hooks, switch only `switch` hooks, remove only *)
(* `remove` hooks. For any other command name get_command_hooks gives the   *)
(* `create` section.                                                        *)
C27_OwnSectionOnly ==
    /\ \A i \in DOMAIN log :
          log[i].ev \in Phases =>
              /\ cmd.kind \in Sections
              /\ log[i].hook.section = cmd.kind
              /\ log[i].hook.phase = log[i].ev
              /\ IsListed(log[i].hook, cmd.kind, log[i].ev)
    /\ hooks /= None =>
          \A other \in OtherCommands :
              get_command_hooks(Unwrap(hooks), other) = Unwrap(hooks).create

\* a remove ran a pre-hook and a post-hook with the full document configured
C27_Witness ==
    /\ cmd.kind = "remove"
    /\ hooksFile.doc = FullDoc
    /\ \E i \in Ran("pre") : log[i].hook = HookCmd("remove", "pre", 1)
    /\ \E i \in Ran("post") : log[i].hook = HookCmd("remove", "post", 1)

\* the document has the list `phase` in section `section`
HasList(section, phase) ==
    section \in DOMAIN hooksFile.doc /\ phase \in DOMAIN hooksFile.doc[section]

(* C30: a hooks.toml that parses gives a configuration, whatever it omits.  *)
(* Each of the six lists is the one written in the document, and empty when *)
(* the document omits the list or its section (all six for an empty         *)
(* document); a command whose list of a phase is omitted starts no hook in  *)
(* that phase and does not fail on one.                                     *)
C30_OmittedListsAreEmpty ==
    (Loaded /\ hooksFile.exists /\ hooksFile.parses) =>
        /\ hooks /= None
        /\ \A s \in Sections, p \in Phases :
              Unwrap(hooks)[s][p] = IF HasList(s, p) THEN hooksFile.doc[s][p] ELSE <<>>
        /\ \A p \in Phases : ~HasList(cmd.kind, p) => Ran(p) = {}
        /\ ~HasList(cmd.kind, "pre") =>
              /\ result.err /= "PreHookFailed"
              /\ \A i \in DOMAIN errors : errors[i].err /= "PreHookFailed"
        /\ ~HasList(cmd.kind, "post") => Ran("warning") = {}

\* a switch succeeded under the partial document: its pre-hook ran, and with
\* the post list omitted no post-hook did
C30_Witness ==
    /\ hooksFile.doc = PartialDoc
    /\ cmd.kind = "switch"
    /\ result = Ok
    /\ Ran("pre") /= {}
    /\ Ran("post") = {}

\* a remove went through under the empty document
C30_WitnessEmpty ==
    /\ hooksFile.exists /\ hooksFile.parses /\ hooksFile.doc = EmptyDoc
    /\ cmd.kind = "remove"
    /\ Ran("println_removed") /= {}
    /\ hooks = Some(HooksConfig(EmptyDoc))

----------------------------------------------------------------------------
(* Properties of the session: the hook processes *)

\* the hooks started so far
HookRuns == { i \in DOMAIN log : log[i].ev \in Phases }

C28_WitnessCreate ==
    /\ cmd.kind = "create"
    /\ \E i \in Ran("post") : log[i].dir = Some(Join(HubRoot, cmd.name))

(* C29: every hook process is given WT_COMMAND (the command), WT_WORKTREE_NAME *)
(* (the target), WT_WORKTREE_PATH (its path) and WT_HUB_ROOT. WT_BRANCH is  *)
(* never set for the hooks of switch and remove; for the hooks of create it *)
(* is set to the branch of --checkout when that was given, to the name of   *)
(* the new worktree when --base was given, and not set otherwise.           *)
C29_HookEnvironment ==
    \A i \in HookRuns :
        /\ log[i].env["WT_COMMAND"] = Some(cmd.kind)
        /\ log[i].env["WT_WORKTREE_NAME"] = Some(log[i].name)
        /\ log[i].env["WT_WORKTREE_PATH"] = Some(Join(HubRoot, log[i].name))
        /\ log[i].env["WT_HUB_ROOT"] = Some(HubRoot)
        /\ cmd.kind \in {"switch", "remove"} => log[i].env["WT_BRANCH"] = None
        /\ cmd.kind = "create" =>
              /\ log[i].name = cmd.name
              /\ log[i].env["WT_BRANCH"] =
                    IF cmd.checkout /= None THEN cmd.checkout
                    ELSE IF cmd.base /= None THEN Some(cmd.name)
                    ELSE None

\* a create --base started a post-hook with WT_BRANCH naming the new worktree
C29_Witness ==
    /\ cmd.kind = "create"
    /\ cmd.base /= None
    /\ \E i \in Ran("post") : log[i].env["WT_BRANCH"] = Some(cmd.name)

\* a create --checkout started a pre-hook with WT_BRANCH naming the branch
C29_WitnessCheckout ==
    /\ cmd.kind = "create"
    /\ cmd.checkout = Some(<<"m">>)
    /\ \E i \in Ran("pre") : log[i].env["WT_BRANCH"] = Some(<<"m">>)

\* a switch started a hook without WT_BRANCH
C29_WitnessSwitch ==
    /\ cmd.kind = "switch"
    /\ \E i \in HookRuns : log[i].env["WT_BRANCH"] = None

----------------------------------------------------------------------------
(* src/git.rs: run_git_in_dir on its own *)

MaxOutLen == 2      \* length of what git writes to each of its streams

OutputChars == {"a", " ", "\n"}
Outputs == SeqsUpTo(OutputChars, MaxOutLen)

\* ExitStatus: an exit code, or none for a process ended by a signal
Signalled == -1
Statuses == {0, 1, 128, Signalled}

\* what happened to the `git` process: the launch failed with an OS error,
\* or it ran and left a status and its two streams
Outcome(launched, oserror, status, stdout, stderr) ==
    [launched |-> launched, oserror |-> oserror, status |-> status,
     stdout |-> stdout, stderr |-> stderr]

NotFound == <<"E", "N", "O", "E", "N", "T">>
GitOutcomes ==
    { Outcome(FALSE, NotFound, 0, <<>>, <<>>) }
    \cup { Outcome(TRUE, <<>>, st, out, err) :
              st \in Statuses, out \in Outputs, err \in Outputs }

\* GitError::new(message) as the Err of a Result
GitError(message) == [ret |-> "Err", err |-> "GitError", value |-> Some(message)]

\* "Failed to execute git: "
LaunchPrefix ==
    <<"F", "a", "i", "l", "e", "d", " ", "t", "o", " ", "e", "x", "e", "c", "u", "t", "e",
      " ", "g", "i", "t", ":", " ">>

\* run_git_in_dir handing out the standard output as git wrote it
run_git_in_dir_Untrimmed(outcome) ==
    IF ~outcome.launched THEN GitError(LaunchPrefix \o outcome.oserror)
    ELSE IF outcome.status = 0 THEN Returned(Some(outcome.stdout))
    ELSE GitError(Trim(outcome.stderr))

\* lines 27-38, given what became of the process
run_git_in_dir(outcome) ==
    IF ~outcome.launched THEN GitError(LaunchPrefix \o outcome.oserror)
    ELSE IF outcome.status = 0 THEN Returned(Some(Trim(outcome.stdout)))
    ELSE GitError(Trim(outcome.stderr))

GitInit ==
    /\ arg \in GitOutcomes
    /\ ret = NotCalled
    /\ trail = <<>>
    /\ SessionAtRest

\* a call of run_git_in_dir
GitCall ==
    /\ ret = NotCalled
    /\ ret' = run_git_in_dir(arg)
    /\ trail' = <<"git">>
    /\ UNCHANGED <<arg, session>>

GitNext == GitCall

GitSpec == GitInit /\ [][GitNext]_vars

----------------------------------------------------------------------------
(* Properties of run_git_in_dir *)

\* t is s without the whitespace at its two ends
IsTrimOf(t, s) ==
    \E i \in 1..(Len(s) + 1), j \in 0..Len(s) :
        /\ i <= j + 1
        /\ t = SubSeq(s, i, j)
        /\ \A k \in 1..Len(s) : (k < i \/ k > j) => s[k] \in Whitespace
        /\ t /= <<>> => t[1] \notin Whitespace /\ t[Len(t)] \notin Whitespace

(* C22: run_git_in_dir returns Ok exactly when the git process was started  *)
(* and exited with status zero, and the value is then its standard output   *)
(* without the whitespace around it. When git ran and did not exit with     *)
(* zero the error carries its standard error without the whitespace around  *)
(* it; when git could not be started the error carries the launch-failure   *)
(* message.                                                                 *)
C22_GitResultFollowsExitStatus ==
    ret /= NotCalled =>
        /\ ret.ret = "Ok" <=> (arg.launched /\ arg.status = 0)
        /\ ret.ret = "Ok" =>
              ret.value /= None /\ IsTrimOf(Unwrap(ret.value), arg.stdout)
        /\ (arg.launched /\ arg.status /= 0) =>
              /\ ret.ret = "Err"
              /\ ret.value /= None /\ IsTrimOf(Unwrap(ret.value), arg.stderr)
        /\ ~arg.launched =>
              /\ ret.ret = "Err"
              /\ ret.value = Some(LaunchPrefix \o arg.oserror)

\* git exited with zero after writing a line with blanks around it
C22_Witness ==
    /\ arg.launched /\ arg.status = 0
    /\ arg.stdout = <<" ", "a">>
    /\ ret = Returned(Some(<<"a">>))

\* git exited with 128 after writing to both streams
C22_WitnessFailed ==
    /\ arg.launched /\ arg.status = 128
    /\ arg.stdout = <<"a">>
    /\ arg.stderr = <<"a", "\n">>
    /\ ret = GitError(<<"a">>)

\* git could not be started
C22_WitnessLaunch ==
    /\ ~arg.launched
    /\ ret = GitError(LaunchPrefix \o NotFound)

----------------------------------------------------------------------------
(* src/git.rs: get_current_worktree_name on its own *)

MaxListed == 2      \* worktrees in a listing, the bare record not counted

LinkName == <<"l">>
\* <hub>/l is a symbolic link to <hub>/a
LinkToA == [l \in {LinkName} |-> Join(HubRoot, NameA)]

NestedName == <<"x">>
OtherName == <<"y">>
\* <hub>/a, a worktree <hub>/a/x inside it, and <hub>/ b
ListedWorktrees ==
    { Worktree(Join(HubRoot, NameA), <<"1">>),
      Worktree(Join(Join(HubRoot, NameA), NestedName), <<"2">>),
      Worktree(Join(HubRoot, NamePadB), <<"1">>) }

\* what `git worktree list` may yield: the bare record first, as git lists
\* the main repository, or no bare record (a plain repository's listing),
\* then worktrees in any order, none twice
Listings ==
    { front \o q :
        front \in {<<>>, <<BareRecord>>},
        q \in { r \in SeqsUpTo(ListedWorktrees, MaxListed) :
                   \A i, j \in DOMAIN r : i /= j => r[i] /= r[j] } }

\* the directories the command may be started in
CurrentDirs ==
    { HubRoot, Outside,
      Join(HubRoot, BareDirName),
      Join(HubRoot, NameA),
      Join(Join(HubRoot, NameA), OtherName),
      Join(Join(HubRoot, NameA), NestedName),
      Join(Join(Join(HubRoot, NameA), NestedName), OtherName),
      Join(HubRoot, NamePadB),
      Join(HubRoot, LinkName),
      Join(Join(HubRoot, LinkName), OtherName) }

CurrentInit ==
    /\ \E dir \in CurrentDirs, worktrees \in Listings, links \in {NoLinks, LinkToA} :
          /\ Join(HubRoot, LinkName) = dir \/ Join(Join(HubRoot, LinkName), OtherName) = dir
                => links = LinkToA
          /\ arg = [current_dir |-> dir, worktrees |-> worktrees, links |-> links]
    /\ ret = NotCalled
    /\ trail = <<>>
    /\ SessionAtRest

\* a call of get_current_worktree_name whose current_dir() and listing succeed
CurrentCall ==
    /\ ret = NotCalled
    /\ ret' = Returned(CurrentWorktree(arg.current_dir, arg.worktrees, arg.links))
    /\ trail' = <<"current">>
    /\ UNCHANGED <<arg, session>>

CurrentNext == CurrentCall

CurrentSpec == CurrentInit /\ [][CurrentNext]_vars

----------------------------------------------------------------------------
(* Properties of get_current_worktree_name *)

\* the records the current directory is in: not the bare one, and with a
\* canonical path that is the canonical current directory or a prefix of it
Containing ==
    { i \in DOMAIN arg.worktrees :
        /\ arg.worktrees[i].head /= BareHead
        /\ StartsWith(Canonicalize(arg.current_dir, arg.links),
                      Canonicalize(arg.worktrees[i].path, arg.links)) }

(* C26: get_current_worktree_name passes over the bare record and returns   *)
(* the last segment of the path of the first record, in listing order,      *)
(* whose path is the current directory or a prefix of it (both taken        *)
(* canonical); it returns none when no record other than the bare one       *)
(* contains the current directory, as at the hub root.                      *)
C26_FirstContainingWorktree ==
    ret /= NotCalled =>
        /\ ret.ret = "Ok"
        /\ Containing = {} => ret.value = None
        /\ Containing /= {} =>
              LET first == CHOOSE i \in Containing : \A j \in Containing : i <= j
                  path == arg.worktrees[first].path
              IN ret.value = Some(path[Len(path)])
        /\ arg.current_dir \in {HubRoot, Outside, Join(HubRoot, BareDirName)}
              => ret.value = None

\* below the nested worktree, which is listed after the one around it: the
\* name is that of the first one listed
C26_Witness ==
    /\ arg.current_dir = Join(Join(Join(HubRoot, NameA), NestedName), OtherName)
    /\ Len(arg.worktrees) = 3
    /\ arg.worktrees[1] = BareRecord
    /\ arg.worktrees[2].path = Join(HubRoot, NameA)
    /\ arg.worktrees[3].path = Join(Join(HubRoot, NameA), NestedName)
    /\ ret = Returned(Some(NameA))

\* at the hub root, with worktrees listed
C26_WitnessHub ==
    /\ arg.current_dir = HubRoot
    /\ Len(arg.worktrees) = 3
    /\ ret = Returned(None)

\* inside the bare store, with the bare record listed
C26_WitnessBare ==
    /\ arg.current_dir = Join(HubRoot, BareDirName)
    /\ BareRecord \in { arg.worktrees[i] : i \in DOMAIN arg.worktrees }
    /\ ret = Returned(None)

----------------------------------------------------------------------------
(* Properties of the session: no retry *)

\* the targets of the command whose work has started: the one target of
\* create and switch (the name `-` resolved to), the targets of remove up to the one being worked on
StartedTargets ==
    IF cmd.kind = "remove"
    THEN SubSeq(cmd.names, 1, IF pc \in {"pre", "op", "post", "finish"} THEN tgtIdx
                              ELSE tgtIdx - 1)
    ELSE <<ctx.worktree_name>>
\* how often the name was given as a target, among the targets started
Occurrences(name) == Cardinality({ t \in DOMAIN StartedTargets : StartedTargets[t] = name })
\* the runs of the process log[i] is a run of: the same hook of the same list
\* for the same target, or the same git command for the same target
RunsLike(i) ==
    { j \in DOMAIN log : /\ log[j].ev = log[i].ev
                         /\ log[j].hook = log[i].hook
                         /\ log[j].name = log[i].name }
\* the places where the command lists the worktrees
ListCalls ==
    CASE cmd.kind = "switch" -> 2
      [] cmd.kind = "create" -> (IF cmd.switch THEN 1 ELSE 0) + (IF cmd.base /= None THEN 1 ELSE 0)
      [] cmd.kind = "list" -> 1
      [] OTHER -> 0

(* C31: within one command every hook of a list and every `git worktree     *)
(* add` or `git worktree remove` is started at most once for each time its  *)
(* target was given (once in create and switch, once per occurrence of the  *)
(* target in remove), whether it succeeded or failed; the worktree list is  *)
(* queried at most once at each place of the command that queries it, and   *)
(* a query that failed is the last thing the command did.                   *)
C31_NoRetry ==
    /\ \A i \in HookEvents \cup Ran("git_add") \cup Ran("git_remove") :
          Cardinality(RunsLike(i)) <= Occurrences(log[i].name)
    /\ Cardinality(Ran("list")) <= ListCalls
    /\ \A i \in Failed("list") : i = Len(log)

\* a remove of two targets returned: a pre-hook of the first failed and was
\* run once, `git worktree remove` of the second failed and was run once
C31_Witness ==
    /\ cmd.kind = "remove"
    /\ pc = "done"
    /\ Len(cmd.names) = 2
    /\ \E i \in Failed("pre") : log[i].name = cmd.names[1] /\ RunsLike(i) = {i}
    /\ \E i \in Failed("git_remove") : log[i].name = cmd.names[2] /\ RunsLike(i) = {i}

\* a create returned after `git worktree add` failed, run once
C31_WitnessAdd ==
    /\ cmd.kind = "create"
    /\ pc = "done"
    /\ Cardinality(Failed("git_add")) = 1
    /\ Cardinality(Ran("git_add")) = 1

----------------------------------------------------------------------------
(* Properties of the session: the pointer *)

\* the switch was started in a worktree other than its target
FromAnotherWorktree == InWorktree /\ cwd[1] /= ctx.worktree_name

(* C32: a switch that has not succeeded from a worktree other than its      *)
(* target has not written the state file. Once the target name is found in  *)
(* no record, once a pre-hook has failed, when the target is the worktree   *)
(* the shell is in, and when the shell is in no worktree, no save was       *)
(* attempted and the state file is as the command found it; and a switch    *)
(* that has returned anything but Ok left the file as it found it.          *)
C32_OtherSwitchesKeepPointer ==
    cmd.kind = "switch" =>
        /\ (\/ result = Err("WorktreeNotFound")
            \/ Failed("pre") /= {}
            \/ InWorktree /\ cwd[1] = ctx.worktree_name
            \/ ~InWorktree)
              => Ran("save") = {} /\ stateFile = start
        /\ (pc = "done" /\ result /= Ok) => stateFile = start

\* a switch from " b" to "a" was aborted by a failing pre-hook and left the
\* pointer that named "a"
C32_Witness ==
    /\ cmd.kind = "switch" /\ pc = "done"
    /\ result = Err("PreHookFailed")
    /\ cwd = <<NamePadB>>
    /\ ctx.worktree_name = NameA
    /\ stateFile = PointerFile(NameA)

\* a switch started in "a" to a name no record has
C32_WitnessNotFound ==
    /\ cmd.kind = "switch" /\ pc = "done"
    /\ result = Err("WorktreeNotFound")
    /\ cwd = <<NameA>>
    /\ stateFile = start /\ stateFile.exists

\* a switch from " b" to " b" returned Ok and left the pointer that named "a"
C32_WitnessSame ==
    /\ cmd.kind = "switch" /\ pc = "done" /\ result = Ok
    /\ cwd = <<NamePadB>>
    /\ ctx.worktree_name = NamePadB
    /\ stateFile = PointerFile(NameA)

\* a switch started at the hub root returned Ok and left the state file it found
C32_WitnessOutside ==
    /\ cmd.kind = "switch" /\ pc = "done" /\ result = Ok
    /\ cwd = HubRoot
    /\ ctx.worktree_name = NameA
    /\ stateFile = start /\ stateFile.exists

(* C33: in switch, when the pointer is saved every configured pre-hook has  *)
(* run and succeeded and no post-hook has started; when a post-hook starts  *)
(* in a switch from another worktree the pointer has been saved; and after  *)
(* a post-hook has failed the state file still holds what was saved, and    *)
(* the switch, once returned, has returned Ok with the target path printed  *)
(* last.                                                                    *)
C33_SaveBetweenPreAndPostHooks ==
    cmd.kind = "switch" =>
        /\ \A i \in Ran("save") :
              LET pres == { j \in Ran("pre") : j < i } IN
              /\ Ran("pre") = pres
              /\ Cardinality(pres) = Len(Configured("pre"))
              /\ \A j \in pres : log[j].ok
              /\ \A j \in Ran("post") : i < j
              /\ (log[i].ok /\ Ran("post") /= {}) => stateFile = PointerFile(log[i].name)
        /\ (Ran("post") /= {} /\ FromAnotherWorktree) =>
              \E i \in Ran("save") : log[i].ok /\ log[i].name = cwd[1]
        /\ (Failed("post") /= {} /\ pc = "done") =>
              /\ result = Ok
              /\ log[Len(log)] = Event("println_path", ctx.worktree_name, NoHook, TRUE)

\* a switch from "a" with two pre-hooks returned Ok after its first post-hook
\* failed: the pointer it saved is in place and the path was printed
C33_Witness ==
    /\ cmd.kind = "switch" /\ pc = "done" /\ result = Ok
    /\ cwd = <<NameA>>
    /\ Len(Configured("pre")) = 2
    /\ Failed("post") /= {}
    /\ \E i \in Ran("save") : log[i].ok
    /\ stateFile = PointerFile(NameA) /\ stateFile /= start
    /\ log[Len(log)].ev = "println_path"

(* C35: in create, a save of the pointer happens only with --switch, only   *)
(* after `git worktree add` has succeeded, only when the command was        *)
(* started in a worktree, and it saves the name of that worktree; a create  *)
(* --switch started in a worktree that has returned Ok has written it. A    *)
(* create without --switch, and a create that has returned an error, left   *)
(* the state file as it found it.                                           *)
C35_CreateSavesAfterAdd ==
    cmd.kind = "create" =>
        /\ \A i \in Ran("save") :
              /\ cmd.switch
              /\ \E j \in Ran("git_add") : j < i /\ log[j].ok
              /\ InWorktree /\ log[i].name = cwd[1]
        /\ stateFile /= start =>
              /\ \E i \in Ran("save") : log[i].ok
              /\ stateFile = PointerFile(cwd[1])
        /\ (cmd.switch /\ InWorktree /\ pc = "done" /\ result = Ok) =>
              stateFile = PointerFile(cwd[1])
        /\ (~cmd.switch \/ (pc = "done" /\ result /= Ok)) => stateFile = start

\* a create --switch started in "a" returned Ok: it saved "a" after git had
\* added the worktree
C35_Witness ==
    /\ cmd.kind = "create" /\ cmd.switch /\ pc = "done" /\ result = Ok
    /\ cwd = <<NameA>>
    /\ \E i \in Ran("save") : \E j \in Ran("git_add") : j < i /\ log[i].name = NameA
    /\ stateFile = PointerFile(NameA)
    /\ stateFile /= start

\* a create --switch started in a worktree whose `git worktree add` failed
C35_WitnessGitFailed ==
    /\ cmd.kind = "create" /\ cmd.switch /\ pc = "done"
    /\ result = Err("GitFailed")
    /\ Failed("git_add") /= {}
    /\ InWorktree
    /\ stateFile = start

\* a create without --switch started in a worktree returned Ok
C35_WitnessNoSwitch ==
    /\ cmd.kind = "create" /\ ~cmd.switch /\ pc = "done" /\ result = Ok
    /\ InWorktree
    /\ stateFile = start

\* a create --switch --base with an unknown source, started in a worktree
C35_WitnessNoSource ==
    /\ cmd.kind = "create" /\ cmd.switch /\ pc = "done"
    /\ result = Err("WorktreeNotFound")
    /\ InWorktree
    /\ stateFile = start

\* the records whose directory name is the name
Named(reg, name) == { i \in 1..Len(reg) : FileName(reg[i].path) = Some(name) }

(* C36: a create --base run in a hub (the worktree list readable) with a    *)
(* source that is the directory name of no record has returned "Worktree    *)
(* not found" without loading the hook configuration, running a hook or     *)
(* invoking `git worktree add`. When a create --base has added its          *)
(* worktree, the new record, the last of the registry, has the head of the  *)
(* first record named as the source.                                        *)
C36_BaseIsResolvedFirst ==
    (cmd.kind = "create" /\ cmd.base /= None /\ HubFound /\ Failed("list") = {}) =>
        /\ Named(registry, Unwrap(cmd.base)) = {} =>
              /\ pc = "done"
              /\ result = Err("WorktreeNotFound")
              /\ Ran("load_hooks") = {}
              /\ HookEvents = {}
              /\ Ran("git_add") = {}
        /\ (\E i \in Ran("git_add") : log[i].ok) =>
              LET before == SubSeq(registry, 1, Len(registry) - 1)
                  sources == Named(before, Unwrap(cmd.base))
                  first == CHOOSE i \in sources : \A j \in sources : i <= j
              IN /\ sources /= {}
                 /\ registry[Len(registry)] =
                       Worktree(Join(HubRoot, cmd.name), before[first].head)

\* create --base a where no worktree "a" is listed, with hooks configured
\* for create: none of them ran
C36_Witness ==
    /\ cmd.kind = "create" /\ cmd.base = Some(NameA)
    /\ pc = "done"
    /\ result = Err("WorktreeNotFound")
    /\ Configured("pre") /= <<>>
    /\ HookEvents = {}

\* create ' b' --base a returned Ok: the new worktree has the head of "a"
C36_WitnessFound ==
    /\ cmd.kind = "create" /\ cmd.base = Some(NameA) /\ cmd.name = NamePadB
    /\ pc = "done" /\ result = Ok
    /\ Len(registry) = 3
    /\ registry[3].head = registry[2].head
    /\ FileName(registry[2].path) = Some(NameA)

----------------------------------------------------------------------------
(* switch and remove in a hub with three worktrees, two of them in          *)
(* directories whose names differ by a leading blank                        *)

NameB == <<"b">>

ToggleRegistry ==
    <<BareRecord,
      Worktree(Join(HubRoot, NameA), <<"1">>),
      Worktree(Join(HubRoot, NamePadB), <<"2">>),
      Worktree(Join(HubRoot, NameB), <<"1">>)>>

ToggleInit ==
    /\ registry = ToggleRegistry
    /\ cwd \in {Join(HubRoot, NameA), Join(HubRoot, NamePadB)}
    /\ stateFile \in InitStateFiles
    /\ hooksFile \in HookFiles
    /\ pc = "idle"
    /\ cmd = NoCommand
    /\ hooks = None
    /\ ctx = NoContext
    /\ current = None
    /\ hookIdx = 0
    /\ tgtIdx = 0
    /\ errors = <<>>
    /\ result = NoResult
    /\ log = <<>>
    /\ start = stateFile
    /\ arg = NoArgument
    /\ ret = NotCalled
    /\ trail = <<>>

\* `wt switch a`, `wt switch ' b'`, `wt switch -`, `wt remove a` and
\* `wt remove ' b'`, in any order
ToggleNext ==
    \/ \E name \in Names \cup {Dash}, readOk, listOk, curOk \in BOOLEAN :
          SwitchBegin(name, FALSE, readOk, listOk, curOk)
    \/ \E saveOk \in BOOLEAN : SwitchOp(TRUE, saveOk)
    \/ SwitchFinish
    \/ \E name \in Names : RemoveBegin(<<name>>)
    \/ RemoveNextTarget
    \/ \E gitOk \in BOOLEAN : RemoveOp(gitOk)
    \/ RemoveTargetDone
    \/ RemoveFinish
    \/ \E ok \in BOOLEAN : RunPreHook(ok)
    \/ PreHooksDone
    \/ \E ok \in BOOLEAN : RunPostHook(ok)
    \/ PostHooksDone
    \/ \E wrapper \in BOOLEAN : ShellReturn(wrapper)

ToggleSpec == ToggleInit /\ [][ToggleNext]_vars

\* the state file named a worktree when the command began, and no record has
\* that directory name: the worktree has been removed
PointerNamesRemoved ==
    \E name \in Names : start = PointerFile(name) /\ name \notin RegistryNames(registry)

(* C34: remove neither reads nor writes the state file, so that it is as    *)
(* the command found it; and a `switch -` run in a hub (the state file and  *)
(* the worktree list readable) while the state file names a worktree that   *)
(* has been removed has returned "Worktree not found" without loading or    *)
(* running a hook and without writing the state file.                       *)
C34_ToggleAfterRemoveFails ==
    /\ cmd.kind = "remove" =>
          Ran("read_state") = {} /\ Ran("save") = {} /\ stateFile = start
    /\ (/\ cmd.kind = "switch" /\ cmd.name = Dash
        /\ HubFound
        /\ Failed("read_state") = {} /\ Failed("list") = {}
        /\ PointerNamesRemoved)
          => /\ pc = "done"
             /\ result = Err("WorktreeNotFound")
             /\ Ran("load_hooks") = {}
             /\ HookEvents = {}
             /\ Ran("save") = {}
             /\ stateFile = start

\* the part of C34 about remove
C34_RemoveKeepsPointer ==
    cmd.kind = "remove" =>
        Ran("read_state") = {} /\ Ran("save") = {} /\ stateFile = start

\* the part of C34 about `switch -`, for a worktree whose directory name has
\* no blank at either end
C34_ToggleAfterRemoveOfPlainName ==
    (/\ cmd.kind = "switch" /\ cmd.name = Dash
     /\ HubFound
     /\ Failed("read_state") = {} /\ Failed("list") = {}
     /\ start = PointerFile(NameA) /\ NameA \notin RegistryNames(registry))
       => /\ pc = "done"
          /\ result = Err("WorktreeNotFound")
          /\ HookEvents = {}
          /\ stateFile = start

====
